---- MODULE Spec2Model ----
(***************************************************************************)
(* Verification model of founders-bookfinder: the Gemini client (rate      *)
(* limiter, generateContent, single- and multi-pass extraction), the       *)
(* POST /api/extract-books batch handler, and the library functions for    *)
(* merging, scoring, auditing, cleaning and enhancing books.               *)
(*                                                                         *)
(* The specifications of the module:                                       *)
(*   SpecExtract     extractBooksFromEpisode / extractBooksWithMultiPass   *)
(*   SpecGen         RateLimiter and generateContent, concurrent callers   *)
(*   SpecLimiter     the RateLimiter alone, polled by concurrent callers   *)
(*   SpecPost        POST /api/extract-books                               *)
(*   SpecMerge       mergeDuplicateBooks on extracted books                *)
(*   SpecStoreMerge  DataCleaner.mergeDuplicateBooks on the stored rows    *)
(*   SpecConfidence  calculateEnhancedConfidence                           *)
(*   SpecReport      DataQualityChecker.generateQualityReport              *)
(*   SpecClean       DataCleaner.cleanBook, run repeatedly on a row        *)
(*   SpecEnhance     GoogleBooksClient.enhanceBook                         *)
(*   SpecParse       parseJsonResponse on the text of a response           *)
(*   SpecFix         DataCleaner.applyAutomaticFixes on the stored rows    *)
(*   SpecStoreMergeFaulty  the store-level merge when an update can fail   *)
(*   SpecGenSent     generateContent with the time of every fetch kept     *)
(*   SpecProcess     POST /api/process-data, run after run                 *)
(*   SpecPostLive    POST /api/extract-books under a fair event loop       *)
(*   SpecLimiterLive a caller suspended in waitForSlot, time going on      *)
(* Strings that are taken apart are sequences of one-character strings.    *)
(* Confidences are integers in units of 1/60 (60 = 1.0, 30 = 0.5,          *)
(* 18 = 0.3), so that the mean of one, two or three pass confidences is    *)
(* exact.                                                                  *)
(***************************************************************************)
EXTENDS Integers, Sequences, FiniteSets, TLC

VARIABLES
    \* ---- extraction (GeminiClient.extractBooksFromEpisode and below)
    desc,        \* the episode description: [len, signal]
    entry,       \* the public method the caller invoked
    pc,          \* position of the innermost running call
    stack,       \* processingNotes of the extractBooksWithMultiPass frames
                 \* suspended in their catch block, outermost first
    passes,      \* passes of the innermost extractBooksWithMultiPass frame
    notes,       \* processingNotes of that frame
    llmCalls,    \* generateContent calls made so far
    allFailed,   \* every generateContent call so far threw
    outcome,     \* "pending", "returned" or "thrown"
    result,      \* value returned by extractBooksFromEpisode
    mpResult,    \* MultiPassExtractionResult of the outermost frame
    completed,   \* result built by the last frame that left its try block
    lastCall,    \* the stage that made the last generateContent call
    lastFailed,  \* whether that call threw
    lastKind,    \* what that call produced: the kind of its response
    \* ---- RateLimiter and generateContent, one call per caller
    now,         \* Date.now(), in units of 1000 ms
    requests,    \* RateLimiter.requests
    admissions,  \* the timestamps checkLimit recorded during the last window
    lastCheck,   \* what the last checkLimit found and did
    gpc,         \* position of each caller's generateContent call
    retries,     \* the retries option of each call
    attempt,     \* the loop variable of each call
    timer,       \* seconds until each caller's pending setTimeout fires
    httpCalls,   \* fetch calls issued by each call
    settled,     \* fetch calls of each call that have settled
    lastOutcome, \* how the last settled fetch of each call ended
    only429,     \* every settled fetch of each call got HTTP 429
    waits,       \* backoff delays each call has slept, in seconds
    \* ---- POST /api/extract-books
    phase,       \* "idle", "batch" (awaiting allSettled), "delay", "responded"
    request,     \* the request being served: episodes and options
    idx,         \* the loop variable i
    batch,       \* positions in request.episodes of the current batch
    tasks,       \* the tasks of the current batch
    allBooks,    \* books collected from the settled batches
    errors,      \* the errors array
    processedEpisodes,
    stats,       \* multiPassEpisodes and simplePassEpisodes
    response,    \* the response sent
    cache,       \* the extraction cache, by episode id
    contextCache,\* episodeContextCache, by episode id
    fate,        \* what became of the task of each position of the request
    iterations,  \* batches started for the request
    \* ---- library functions applied to one input
    call,        \* the function applied, "none" before any
    arg,         \* its input
    out,         \* its result
    again,       \* the result of applying it to its own result
    store,       \* the rows of the books table, in the order getAllBooks gives
    run          \* the position of the store procedure that is running

extractVars == <<desc, entry, pc, stack, passes, notes, llmCalls, allFailed,
                 outcome, result, mpResult, completed, lastCall, lastFailed,
                 lastKind>>

genVars == <<now, requests, admissions, lastCheck, gpc, retries, attempt, timer,
             httpCalls, settled, lastOutcome, only429, waits>>

postVars == <<phase, request, idx, batch, tasks, allBooks, errors, processedEpisodes,
              stats, response, cache, contextCache, fate, iterations>>

libVars == <<call, arg, out, again, store, run>>

vars == <<extractVars, genVars, postVars, libVars>>

----------------------------------------------------------------------------
(* Bounds *)

NumBooks == 2
MaxDepth == 2
NumCallers == 3
NumEpisodes == 2
MaxIterations == 3
MaxRetries == 2
MaxTime == 6

\* the arguments the RateLimiter is constructed with; the window is in
\* units of 1000 ms
Limit == 2
WindowTicks == 3

----------------------------------------------------------------------------
(* Values *)

Books == 1..NumBooks

\* the members of S, a set of numbers, in increasing order
RECURSIVE Ascending(_)
Ascending(S) ==
    IF S = {} THEN <<>>
    ELSE LET m == CHOOSE x \in S : \A y \in S : x <= y
         IN  <<m>> \o Ascending(S \ {m})

\* the book lists a response can carry: distinct books, in catalogue order
BookLists == {Ascending(S) : S \in SUBSET Books}

\* the same lists with a validationStatus on every book
ValidatedLists ==
    UNION {{[i \in 1..Len(bs) |-> [book |-> bs[i], validationStatus |-> st[i]]] :
              st \in [1..Len(bs) -> {"VALID", "INVALID"}]} : bs \in BookLists}

\* overallConfidence reported by the model: absent/0, or 0.8
ConfValues == {0, 48}

ContextValues == {"", "ctx"}

\* Descriptions around the length threshold, with and without a signal phrase
Descriptions == [len : {799, 800, 801}, signal : BOOLEAN]

NoMp == [passes |-> <<>>, finalBooks |-> <<>>, overallConfidence |-> 0,
         processingNotes |-> <<>>, kind |-> "none"]

NoResult == [isNull |-> FALSE, hasBooks |-> FALSE, books |-> <<>>, multiPass |-> FALSE,
             confidence |-> 0, processingNotes |-> <<>>, passes |-> 0,
             raw |-> FALSE, contextPreserved |-> ""]

Note(tag, n) == <<tag, n>>

----------------------------------------------------------------------------
(* What one generateContent call can produce: it throws ("fail"), or it   *)
(* returns text that is not JSON ("garbage"), the JSON literal null        *)
(* ("null"), or a JSON object ("json") with any of the fields the callers  *)
(* read.                                                                   *)

JsonResponse(hb, bs, hv, vs, c, k) ==
    [kind |-> "json", hasBooks |-> hb, books |-> bs, hasValidated |-> hv,
     validatedBooks |-> vs, contextPreserved |-> c, validationNotes |-> "",
     overallConfidence |-> k]

FailResponse == [JsonResponse(FALSE, <<>>, FALSE, <<>>, "", 0) EXCEPT !.kind = "fail"]
GarbageResponse == [JsonResponse(FALSE, <<>>, FALSE, <<>>, "", 0) EXCEPT !.kind = "garbage"]
NullResponse == [JsonResponse(FALSE, <<>>, FALSE, <<>>, "", 0) EXCEPT !.kind = "null"]

\* Responses to the single-pass and the initial prompt
BookResponses ==
    {FailResponse, GarbageResponse, NullResponse,
     JsonResponse(FALSE, <<>>, FALSE, <<>>, "", 0)}
    \cup {JsonResponse(TRUE, bs, FALSE, <<>>, c, k) :
            bs \in BookLists, c \in ContextValues, k \in ConfValues}

\* Responses to the refinement prompt
RefinementResponses ==
    {FailResponse, GarbageResponse, NullResponse,
     JsonResponse(FALSE, <<>>, FALSE, <<>>, "ctx", 0)}
    \cup {JsonResponse(TRUE, bs, FALSE, <<>>, "", k) :
            bs \in BookLists, k \in ConfValues}

\* Responses to the validation prompt
ValidationResponses ==
    {FailResponse, GarbageResponse, NullResponse,
     JsonResponse(FALSE, <<>>, FALSE, <<>>, "", 0),
     [JsonResponse(TRUE, <<1>>, FALSE, <<>>, "", 48) EXCEPT !.validationNotes = "notes"]}
    \cup {JsonResponse(FALSE, <<>>, TRUE, vs, "", k) :
            vs \in ValidatedLists, k \in ConfValues}

----------------------------------------------------------------------------
(* Pure helpers of GeminiClient *)

\* a mutant of IsComplexEpisode: the threshold itself counts as complex
IsComplexEpisodeFrom800(d) == d.len >= 800 \/ d.signal

IsComplexEpisode(d) == d.len > 800 \/ d.signal

\* parseJsonResponse: the parsed value; text that is not JSON becomes
\* { books: [], rawResponse }
ParseJsonResponse(resp) ==
    IF resp.kind = "json" THEN
        [isNull |-> FALSE, hasBooks |-> resp.hasBooks, books |-> resp.books,
         hasValidated |-> resp.hasValidated, validatedBooks |-> resp.validatedBooks,
         contextPreserved |-> resp.contextPreserved,
         validationNotes |-> resp.validationNotes,
         overallConfidence |-> resp.overallConfidence, raw |-> FALSE]
    ELSE IF resp.kind = "null" THEN
        [isNull |-> TRUE, hasBooks |-> FALSE, books |-> <<>>,
         hasValidated |-> FALSE, validatedBooks |-> <<>>,
         contextPreserved |-> "", validationNotes |-> "",
         overallConfidence |-> 0, raw |-> FALSE]
    ELSE
        [isNull |-> FALSE, hasBooks |-> TRUE, books |-> <<>>,
         hasValidated |-> FALSE, validatedBooks |-> <<>>,
         contextPreserved |-> "", validationNotes |-> "",
         overallConfidence |-> 0, raw |-> TRUE]

\* x || 0.5 on a confidence
OrDefaultConfidence(k) == IF k = 0 THEN 30 ELSE k

\* s || t on a string
OrString(s, t) == IF s = "" THEN t ELSE s

\* performInitialExtraction: a failed call and a property read on null are
\* rethrown
InitialThrows(resp) == resp.kind = "fail" \/ ParseJsonResponse(resp).isNull

PerformInitialExtraction(resp) ==
    LET r == ParseJsonResponse(resp)
    IN  [passType |-> "initial",
         books |-> IF r.hasBooks THEN r.books ELSE <<>>,
         contextPreserved |-> r.contextPreserved,
         confidence |-> OrDefaultConfidence(r.overallConfidence)]

\* a mutant of PerformRefinementPass: a failed call loses the initial books
PerformRefinementPassDropsBooks(initialBooks, preservedContext, resp) ==
    [passType |-> "refinement",
     books |-> IF resp.kind = "json" /\ resp.hasBooks THEN resp.books ELSE <<>>,
     contextPreserved |-> preservedContext,
     confidence |-> OrDefaultConfidence(resp.overallConfidence)]

PerformRefinementPass(initialBooks, preservedContext, resp) ==
    LET r == ParseJsonResponse(resp)
    IN  IF resp.kind = "fail" \/ r.isNull THEN
            [passType |-> "refinement", books |-> initialBooks,
             contextPreserved |-> preservedContext, confidence |-> 30]
        ELSE
            [passType |-> "refinement",
             books |-> IF r.hasBooks THEN r.books ELSE initialBooks,
             contextPreserved |-> OrString(r.contextPreserved, preservedContext),
             confidence |-> OrDefaultConfidence(r.overallConfidence)]

ValidOnly(vs) ==
    LET keep(v) == v.validationStatus = "VALID"
        picked == SelectSeq(vs, keep)
    IN  [i \in 1..Len(picked) |-> picked[i].book]

PerformValidationPass(refinedBooks, resp) ==
    LET r == ParseJsonResponse(resp)
    IN  IF resp.kind = "fail" \/ r.isNull THEN
            [passType |-> "validation", books |-> refinedBooks,
             contextPreserved |-> "", confidence |-> 30]
        ELSE
            [passType |-> "validation",
             books |-> IF r.hasValidated THEN ValidOnly(r.validatedBooks) ELSE <<>>,
             contextPreserved |-> r.validationNotes,
             confidence |-> OrDefaultConfidence(r.overallConfidence)]

\* a mutant of HasBooks: later stages run whatever the upstream stage found
HasBooksAlways(pass) == TRUE

\* the guard of the refinement and of the validation stage
HasBooks(pass) == Len(pass.books) > 0

RECURSIVE SumConfidence(_)
SumConfidence(ps) ==
    IF ps = <<>> THEN 0 ELSE ps[1].confidence + SumConfidence(Tail(ps))

OverallConfidence(ps) ==
    IF Len(ps) > 0 THEN SumConfidence(ps) \div Len(ps) ELSE 0

\* a mutant of CompletedResult: the final books are those of the first pass
CompletedResultFirstPass(ps, ns, validationPass) ==
    [passes |-> ps,
     finalBooks |-> ps[1].books,
     overallConfidence |-> 0,
     processingNotes |-> ns,
     kind |-> "completed"]

\* the object returned at the end of the try block of
\* extractBooksWithMultiPass
CompletedResult(ps, ns, validationPass) ==
    [passes |-> ps,
     finalBooks |-> validationPass.books,
     overallConfidence |-> OverallConfidence(ps),
     processingNotes |-> Append(ns, Note("completed", OverallConfidence(ps))),
     kind |-> "completed"]

\* the catch block of extractBooksWithMultiPass, once the fallback call has
\* settled; ns already holds the "Multi-pass extraction failed" note
FallbackResult(ns, thrown, val) ==
    IF thrown \/ val.isNull THEN
        [passes |-> <<>>, finalBooks |-> <<>>, overallConfidence |-> 0,
         processingNotes |-> Append(ns, Note("both_failed", 0)),
         kind |-> "both_failed"]
    ELSE
        [passes |-> <<>>,
         finalBooks |-> IF val.hasBooks THEN val.books ELSE <<>>,
         overallConfidence |-> 18,
         processingNotes |-> Append(ns, Note("fell_back", 0)),
         kind |-> "fell_back"]

\* the object extractBooksFromEpisode builds from a multi-pass result
EpisodeResult(mp) ==
    [isNull |-> FALSE, hasBooks |-> TRUE, books |-> mp.finalBooks, multiPass |-> TRUE,
     confidence |-> mp.overallConfidence, processingNotes |-> mp.processingNotes,
     passes |-> Len(mp.passes), raw |-> FALSE, contextPreserved |-> ""]

\* the value extractBooksFromEpisodeSimple returns: the parsed response
SimpleResult(resp) ==
    LET r == ParseJsonResponse(resp)
    IN  [isNull |-> r.isNull, hasBooks |-> r.hasBooks, books |-> r.books,
         multiPass |-> FALSE, confidence |-> 0, processingNotes |-> <<>>,
         passes |-> 0, raw |-> r.raw, contextPreserved |-> r.contextPreserved]

----------------------------------------------------------------------------
(* Returning through the suspended frames.  A frame of                     *)
(* extractBooksWithMultiPass suspended in its catch block awaits           *)
(* extractBooksFromEpisode(description); when that call settles the frame  *)
(* builds its fallback result and returns it to its own caller, which is   *)
(* extractBooksFromEpisode again unless the frame is the outermost one of  *)
(* a direct call of extractBooksWithMultiPass.                             *)

Final(o, r, mp) == [outcome |-> o, result |-> r, mpResult |-> mp]

RECURSIVE MpReturn(_, _, _), EpReturn(_, _, _, _, _)

\* extractBooksWithMultiPass returned mp to its caller; stk are the frames
\* still suspended below it, e the entry point
MpReturn(mp, stk, e) ==
    IF stk = <<>> /\ e = "multipass" THEN Final("returned", NoResult, mp)
    ELSE EpReturn(FALSE, EpisodeResult(mp), stk, e, mp)

\* extractBooksFromEpisode settled (thrown, or returned val)
EpReturn(thrown, val, stk, e, mp) ==
    IF stk = <<>> THEN
        Final(IF thrown THEN "thrown" ELSE "returned",
              IF thrown THEN NoResult ELSE val, mp)
    ELSE
        MpReturn(FallbackResult(stk[Len(stk)], thrown, val),
                 SubSeq(stk, 1, Len(stk) - 1), e)

----------------------------------------------------------------------------
(* Extraction: one action per generateContent call of the pipeline *)

Callers == 1..NumCallers

EpisodeIds == 1..NumEpisodes

NoRequest == [hasEpisodes |-> FALSE, episodes |-> <<>>, batchSize |-> 0,
              refresh |-> FALSE, enableMultiPass |-> FALSE,
              preserveContext |-> FALSE]

NoResponse == [status |-> 0, success |-> FALSE, books |-> <<>>, errors |-> <<>>,
               processedEpisodes |-> 0,
               extractionStats |-> [multiPassEpisodes |-> 0, simplePassEpisodes |-> 0]]

NoEntry == [present |-> FALSE, books |-> <<>>]

\* the route before any request: empty caches
PostIdle ==
    /\ phase = "idle"
    /\ request = NoRequest
    /\ idx = 0
    /\ batch = <<>>
    /\ tasks = <<>>
    /\ allBooks = <<>>
    /\ errors = <<>>
    /\ processedEpisodes = 0
    /\ stats = [multiPassEpisodes |-> 0, simplePassEpisodes |-> 0]
    /\ response = NoResponse
    /\ cache = [e \in EpisodeIds |-> NoEntry]
    /\ contextCache = [e \in EpisodeIds |-> ""]
    /\ fate = <<>>
    /\ iterations = 0

\* no library function has been applied
LibIdle ==
    /\ call = "none"
    /\ arg = <<>>
    /\ out = <<>>
    /\ again = <<>>
    /\ store = <<>>
    /\ run = <<>>

\* the limiter and every caller before any call
GenIdle ==
    /\ now = 0
    /\ requests = <<>>
    /\ admissions = <<>>
    /\ lastCheck = [full |-> FALSE, admitted |-> FALSE, recorded |-> FALSE]
    /\ gpc = [c \in Callers |-> "idle"]
    /\ retries = [c \in Callers |-> 0]
    /\ attempt = [c \in Callers |-> 0]
    /\ timer = [c \in Callers |-> 0]
    /\ httpCalls = [c \in Callers |-> 0]
    /\ settled = [c \in Callers |-> 0]
    /\ lastOutcome = [c \in Callers |-> "none"]
    /\ only429 = [c \in Callers |-> TRUE]
    /\ waits = [c \in Callers |-> <<>>]

InitExtract ==
    /\ desc \in Descriptions
    /\ entry \in {"episode", "multipass"}
    /\ pc = "start"
    /\ stack = <<>>
    /\ passes = <<>>
    /\ notes = <<>>
    /\ llmCalls = 0
    /\ allFailed = TRUE
    /\ outcome = "pending"
    /\ result = NoResult
    /\ mpResult = NoMp
    /\ completed = NoMp
    /\ lastCall = "none"
    /\ lastFailed = FALSE
    /\ lastKind = "none"
    /\ GenIdle
    /\ PostIdle
    /\ LibIdle

\* pc, passes and notes on entering extractBooksFromEpisode(d): the
\* multi-pass frame starts with its first note, the simple path has none
EnterEpisode(d) ==
    IF IsComplexEpisode(d)
    THEN [pc |-> "initial", notes |-> <<Note("start_initial", 0)>>]
    ELSE [pc |-> "simple", notes |-> <<>>]

EnterMultiPass == [pc |-> "initial", notes |-> <<Note("start_initial", 0)>>]

\* the caller invokes extractBooksFromEpisode or extractBooksWithMultiPass
Start ==
    /\ pc = "start"
    /\ LET e == IF entry = "episode" THEN EnterEpisode(desc) ELSE EnterMultiPass
       IN  /\ pc' = e.pc
           /\ notes' = e.notes
    /\ UNCHANGED <<desc, entry, stack, passes, llmCalls, allFailed, outcome,
                   result, mpResult, completed, lastCall, lastFailed, lastKind>>
    /\ UNCHANGED <<genVars, postVars, libVars>>

Called(stage, resp) ==
    /\ llmCalls' = llmCalls + 1
    /\ allFailed' = (allFailed /\ resp.kind = "fail")
    /\ lastCall' = stage
    /\ lastFailed' = (resp.kind = "fail")
    /\ lastKind' = resp.kind

\* the innermost frame of extractBooksWithMultiPass returns mp
Finish(mp) ==
    LET f == MpReturn(mp, stack, entry)
    IN  /\ pc' = "done"
        /\ stack' = <<>>
        /\ outcome' = f.outcome
        /\ result' = f.result
        /\ mpResult' = f.mpResult
        /\ completed' = mp

Running(nextPc, ps, ns) ==
    /\ pc' = nextPc
    /\ passes' = ps
    /\ notes' = ns
    /\ UNCHANGED <<stack, outcome, result, mpResult, completed>>

\* extractBooksFromEpisodeSimple: one generateContent call; a failure is
\* rethrown to the caller
SimpleCall ==
    /\ pc = "simple"
    /\ \E resp \in BookResponses :
        /\ Called("simple", resp)
        /\ LET f == EpReturn(resp.kind = "fail", SimpleResult(resp), stack, entry, NoMp)
           IN  /\ pc' = "done"
               /\ stack' = <<>>
               /\ outcome' = f.outcome
               /\ result' = f.result
               /\ mpResult' = f.mpResult
    /\ UNCHANGED <<desc, entry, passes, notes, completed>>
    /\ UNCHANGED <<genVars, postVars, libVars>>

\* pass 1 of extractBooksWithMultiPass, up to the next generateContent call
InitialCall ==
    /\ pc = "initial"
    /\ \E resp \in BookResponses :
        /\ Called("initial", resp)
        /\ IF InitialThrows(resp) THEN
               \* catch block: note the failure, call extractBooksFromEpisode
               /\ Len(stack) < MaxDepth
               /\ stack' = Append(stack, Append(notes, Note("mp_failed", 0)))
               /\ pc' = EnterEpisode(desc).pc
               /\ notes' = EnterEpisode(desc).notes
               /\ passes' = <<>>
               /\ UNCHANGED <<outcome, result, mpResult, completed>>
           ELSE
               LET initialPass == PerformInitialExtraction(resp)
                   ps == <<initialPass>>
                   ns == Append(notes, Note("initial_extracted", Len(initialPass.books)))
               IN  IF HasBooks(initialPass) THEN
                       Running("refinement", ps, Append(ns, Note("start_refinement", 0)))
                   ELSE
                       LET ns2 == ns \o <<Note("skip_refinement", 0), Note("skip_validation", 0)>>
                       IN  /\ passes' = ps
                           /\ notes' = ns2
                           /\ Finish(CompletedResult(ps, ns2, initialPass))
    /\ UNCHANGED <<desc, entry>>
    /\ UNCHANGED <<genVars, postVars, libVars>>

\* pass 2, up to the next generateContent call
RefinementCall ==
    /\ pc = "refinement"
    /\ \E resp \in RefinementResponses :
        /\ Called("refinement", resp)
        /\ LET initialPass == passes[1]
               refinementPass == PerformRefinementPass(initialPass.books,
                                     initialPass.contextPreserved, resp)
               ps == Append(passes, refinementPass)
               ns == Append(notes, Note("refinement_processed", Len(refinementPass.books)))
           IN  IF HasBooks(refinementPass) THEN
                   Running("validation", ps, Append(ns, Note("start_validation", 0)))
               ELSE
                   LET ns2 == Append(ns, Note("skip_validation", 0))
                   IN  /\ passes' = ps
                       /\ notes' = ns2
                       /\ Finish(CompletedResult(ps, ns2, refinementPass))
    /\ UNCHANGED <<desc, entry>>
    /\ UNCHANGED <<genVars, postVars, libVars>>

\* pass 3 and the end of the try block
ValidationCall ==
    /\ pc = "validation"
    /\ \E resp \in ValidationResponses :
        /\ Called("validation", resp)
        /\ LET refinementPass == passes[Len(passes)]
               validationPass == PerformValidationPass(refinementPass.books, resp)
               ps == Append(passes, validationPass)
               ns == Append(notes, Note("validation_approved", Len(validationPass.books)))
           IN  /\ passes' = ps
               /\ notes' = ns
               /\ Finish(CompletedResult(ps, ns, validationPass))
    /\ UNCHANGED <<desc, entry>>
    /\ UNCHANGED <<genVars, postVars, libVars>>

NextExtract ==
    \/ Start
    \/ SimpleCall
    \/ InitialCall
    \/ RefinementCall
    \/ ValidationCall

SpecExtract == InitExtract /\ [][NextExtract]_vars

----------------------------------------------------------------------------
(* Properties of the extraction pipeline (SpecExtract) *)

Last(s) == s[Len(s)]

StageOrder == <<"initial", "refinement", "validation">>

\* C1: extractBooksFromEpisode never raises: whatever the description and
\* whichever generateContent calls fail, the call returns a result object
\* and does not throw to its caller.
C1_NeverRaises ==
    entry = "episode" => outcome # "thrown"

\* C2: when the initial pass throws, the fallback is the single-pass
\* extractor and no multi-pass stage is entered again: while a frame waits
\* in its catch block the call it awaits is the single-pass call, and a
\* fallback that succeeded yields no passes and both notes.
C2_FallbackIsSinglePass ==
    /\ stack # <<>> => pc = "simple"
    /\ mpResult.kind = "fell_back" =>
          /\ mpResult.passes = <<>>
          /\ Last(mpResult.processingNotes) = Note("fell_back", 0)
          /\ \E i \in 1..Len(mpResult.processingNotes) :
                mpResult.processingNotes[i] = Note("mp_failed", 0)

\* C3: if every generateContent call fails, extractBooksFromEpisode on a
\* complex description terminates after the two calls of the multi-pass
\* attempt and of its fallback, with no books, confidence 0, no passes and
\* the note that both extractions failed.
C3_AllFailTerminates ==
    (entry = "episode" /\ IsComplexEpisode(desc) /\ allFailed /\ llmCalls >= 2) =>
        /\ pc = "done"
        /\ outcome = "returned"
        /\ mpResult.kind = "both_failed"
        /\ mpResult.finalBooks = <<>>
        /\ mpResult.overallConfidence = 0
        /\ mpResult.passes = <<>>

\* C4: in a run whose initial call succeeded the executed passes are a
\* prefix of (initial, refinement, validation); the refinement call is made
\* only after an initial pass with at least one book, the validation call
\* only after a refinement pass with at least one book, and a pass with no
\* book is the last pass and ends the run without a further call.
C4_StagesInOrder ==
    /\ Len(passes) <= 3
    /\ \A i \in 1..Len(passes) : passes[i].passType = StageOrder[i]
    /\ pc = "refinement" => Len(passes) = 1 /\ Len(passes[1].books) > 0
    /\ pc = "validation" => Len(passes) = 2 /\ Len(passes[2].books) > 0
    /\ lastCall = "refinement" => Len(passes) >= 2 /\ Len(passes[1].books) > 0
    /\ lastCall = "validation" =>
          Len(passes) = 3 /\ Len(passes[1].books) > 0 /\ Len(passes[2].books) > 0
    /\ \A i \in 1..Len(passes) :
          (i < 3 /\ passes[i].books = <<>>) =>
              /\ Len(passes) = i
              /\ pc = "done"
              /\ lastCall = StageOrder[i]

\* C4 witness: the refinement pass returned no book and validation was skipped
C4_Witness ==
    /\ pc = "done"
    /\ Len(passes) = 2
    /\ passes[1].books # <<>>
    /\ passes[2].books = <<>>
    /\ completed.kind = "completed"

\* C5: when extractBooksWithMultiPass completes without the fallback path,
\* finalBooks are the books of the last pass appended to passes.
C5_FinalBooksOfLastPass ==
    completed.kind = "completed" =>
        /\ completed.passes = passes
        /\ Len(completed.passes) >= 1
        /\ completed.finalBooks = Last(completed.passes).books

\* C5 witness: three passes ran and validation changed the refined books
C5_Witness ==
    /\ completed.kind = "completed"
    /\ Len(completed.passes) = 3
    /\ completed.passes[3].books # completed.passes[2].books
    /\ completed.passes[3].books # completed.passes[1].books
    /\ completed.finalBooks # <<>>

\* C6: a refinement or validation stage whose generateContent call fails
\* is still appended to passes with confidence 0.5 and with its input books
\* unchanged, nothing is thrown, and the pipeline goes on (to validation, or
\* to its result).
C6_FailedStageDegrades ==
    /\ (lastFailed /\ lastCall = "refinement") =>
          /\ Len(passes) = 2
          /\ passes[2].passType = "refinement"
          /\ passes[2].confidence = 30
          /\ passes[2].books = passes[1].books
          /\ pc = "validation"
          /\ outcome = "pending"
    /\ (lastFailed /\ lastCall = "validation") =>
          /\ Len(passes) = 3
          /\ passes[3].passType = "validation"
          /\ passes[3].confidence = 30
          /\ passes[3].books = passes[2].books
          /\ pc = "done"
          /\ outcome = "returned"
          /\ completed.kind = "completed"
          /\ completed.finalBooks = passes[2].books

\* C6 witness: the refinement call failed and validation is about to run
\* on the initial books
C6_Witness ==
    /\ lastFailed
    /\ lastCall = "refinement"
    /\ pc = "validation"
    /\ passes[2].books = passes[1].books

----------------------------------------------------------------------------
(* RateLimiter and GeminiClient.generateContent.  Time is counted in units *)
(* of 1000 ms, the poll interval of waitForSlot and the unit of the        *)
(* backoff; Date.now() does not go backwards.                              *)

RECURSIVE Pow2(_)
Pow2(n) == IF n = 0 THEN 1 ELSE 2 * Pow2(n - 1)

\* the timestamps of reqs that are younger than the window at time t
InWindow(reqs, t) ==
    LET young(x) == t - x < WindowTicks
    IN  SelectSeq(reqs, young)

\* a mutant of CheckLimit: the comparison with the limit is off by one
CheckLimitOffByOne(reqs, t) ==
    LET kept == InWindow(reqs, t)
    IN  IF Len(kept) > Limit
        THEN [admitted |-> FALSE, requests |-> kept]
        ELSE [admitted |-> TRUE, requests |-> Append(kept, t)]

\* a mutant of CheckLimit: an admission keeps the expired timestamps
CheckLimitKeepsExpired(reqs, t) ==
    IF Len(InWindow(reqs, t)) >= Limit
    THEN [admitted |-> FALSE, requests |-> InWindow(reqs, t)]
    ELSE [admitted |-> TRUE, requests |-> Append(reqs, t)]

\* RateLimiter.checkLimit at time t: the verdict and the new requests array
CheckLimit(reqs, t) ==
    LET kept == InWindow(reqs, t)
    IN  IF Len(kept) >= Limit
        THEN [admitted |-> FALSE, requests |-> kept]
        ELSE [admitted |-> TRUE, requests |-> Append(kept, t)]

\* What one fetch attempt can end in: text ("ok"), HTTP 429 ("rate429"),
\* another HTTP error status ("error"), another HTTP error status whose
\* provider message contains the digits 429 ("error429text"), or a success
\* response without candidates ("empty").
HttpOutcomes == {"ok", "rate429", "error", "error429text", "empty"}

\* a mutant of MessageIncludes429: every error is retried
MessageIncludes429Always(o) == o # "ok"

\* error.message.includes('429') on the error an attempt threw; the message
\* of an HTTP error is "Gemini API error: <message> (<code>)"
MessageIncludes429(o) == o \in {"rate429", "error429text"}

\* a mutant of BackoffSeconds: a constant delay
BackoffSecondsConstant(a) == 2

\* Math.pow(2, attempt) seconds
BackoffSeconds(a) == Pow2(a)

\* a mutant of LoopContinues: one attempt more than the loop makes
LoopContinuesOnceMore(a, r) == a <= r + 1

\* the loop condition attempt <= retries
LoopContinues(a, r) == a <= r

ExtractIdle ==
    /\ desc = [len |-> 0, signal |-> FALSE]
    /\ entry = "none"
    /\ pc = "idle"
    /\ stack = <<>>
    /\ passes = <<>>
    /\ notes = <<>>
    /\ llmCalls = 0
    /\ allFailed = TRUE
    /\ outcome = "pending"
    /\ result = NoResult
    /\ mpResult = NoMp
    /\ completed = NoMp
    /\ lastCall = "none"
    /\ lastFailed = FALSE
    /\ lastKind = "none"

InitGen == GenIdle /\ ExtractIdle /\ PostIdle /\ LibIdle

\* one checkLimit by caller c, whose call has the retries option r, and what
\* follows without suspension: the first fetch when admitted (or the final
\* throw when the loop body never runs), the poll timer when refused.  The
\* record of the last check is kept by SlotCheck below.
Admission(c, r) ==
    LET cl == CheckLimit(requests, now)
    IN  /\ requests' = cl.requests
        /\ UNCHANGED lastCheck
        /\ IF ~cl.admitted THEN
               /\ gpc' = [gpc EXCEPT ![c] = "polling"]
               /\ timer' = [timer EXCEPT ![c] = 1]
               /\ attempt' = [attempt EXCEPT ![c] = 0]
               /\ httpCalls' = [httpCalls EXCEPT ![c] = 0]
           ELSE IF LoopContinues(1, r) THEN
               /\ gpc' = [gpc EXCEPT ![c] = "fetching"]
               /\ attempt' = [attempt EXCEPT ![c] = 1]
               /\ httpCalls' = [httpCalls EXCEPT ![c] = 1]
               /\ UNCHANGED timer
           ELSE
               /\ gpc' = [gpc EXCEPT ![c] = "failed"]
               /\ attempt' = [attempt EXCEPT ![c] = 1]
               /\ httpCalls' = [httpCalls EXCEPT ![c] = 0]
               /\ UNCHANGED timer

\* generateContent is called by a caller that has no call running: the
\* first checkLimit of waitForSlot runs at once
GenCallSteps(c) ==
    /\ gpc[c] \in {"idle", "returned", "failed"}
    /\ \E r \in 0..MaxRetries :
        /\ retries' = [retries EXCEPT ![c] = r]
        /\ Admission(c, r)
    /\ settled' = [settled EXCEPT ![c] = 0]
    /\ lastOutcome' = [lastOutcome EXCEPT ![c] = "none"]
    /\ only429' = [only429 EXCEPT ![c] = TRUE]
    /\ waits' = [waits EXCEPT ![c] = <<>>]
    /\ UNCHANGED now
    /\ UNCHANGED <<extractVars, postVars, libVars>>

GenCall(c) == GenCallSteps(c) /\ UNCHANGED admissions

\* the 1000 ms timer of waitForSlot fired: checkLimit again
PollSteps(c) ==
    /\ gpc[c] = "polling"
    /\ timer[c] = 0
    /\ Admission(c, retries[c])
    /\ UNCHANGED <<now, retries, settled, lastOutcome, only429, waits>>
    /\ UNCHANGED <<extractVars, postVars, libVars>>

Poll(c) == PollSteps(c) /\ UNCHANGED admissions

\* the fetch of the current attempt settled
Respond(c) ==
    /\ gpc[c] = "fetching"
    /\ \E o \in HttpOutcomes :
        /\ settled' = [settled EXCEPT ![c] = @ + 1]
        /\ lastOutcome' = [lastOutcome EXCEPT ![c] = o]
        /\ only429' = [only429 EXCEPT ![c] = @ /\ o = "rate429"]
        /\ IF o = "ok" THEN
               /\ gpc' = [gpc EXCEPT ![c] = "returned"]
               /\ UNCHANGED <<timer, waits>>
           ELSE IF MessageIncludes429(o) THEN
               /\ gpc' = [gpc EXCEPT ![c] = "backoff"]
               /\ timer' = [timer EXCEPT ![c] = BackoffSeconds(attempt[c])]
               /\ waits' = [waits EXCEPT ![c] = Append(@, BackoffSeconds(attempt[c]))]
           ELSE
               /\ gpc' = [gpc EXCEPT ![c] = "failed"]
               /\ UNCHANGED <<timer, waits>>
    /\ UNCHANGED <<now, requests, admissions, lastCheck, retries, attempt, httpCalls>>
    /\ UNCHANGED <<extractVars, postVars, libVars>>

\* the backoff timer fired: the next attempt, or the throw after the loop
RetrySteps(c) ==
    /\ gpc[c] = "backoff"
    /\ timer[c] = 0
    /\ attempt' = [attempt EXCEPT ![c] = @ + 1]
    /\ IF LoopContinues(attempt[c] + 1, retries[c]) THEN
           /\ gpc' = [gpc EXCEPT ![c] = "fetching"]
           /\ httpCalls' = [httpCalls EXCEPT ![c] = @ + 1]
       ELSE
           /\ gpc' = [gpc EXCEPT ![c] = "failed"]
           /\ UNCHANGED httpCalls
    /\ UNCHANGED <<now, requests, lastCheck, retries, timer, settled, lastOutcome, only429, waits>>
    /\ UNCHANGED <<extractVars, postVars, libVars>>

Retry(c) == RetrySteps(c) /\ UNCHANGED admissions

\* a second passes; an admission that is a whole window old shares no
\* window with a later one and is dropped from the record
Tick ==
    /\ now < MaxTime
    /\ now' = now + 1
    /\ timer' = [c \in Callers |-> IF timer[c] > 0 THEN timer[c] - 1 ELSE 0]
    /\ admissions' = InWindow(admissions, now + 1)
    /\ UNCHANGED <<requests, lastCheck, gpc, retries, attempt,
                   httpCalls, settled, lastOutcome, only429, waits>>
    /\ UNCHANGED <<extractVars, postVars, libVars>>

\* the callers of generateContent in SpecGen
GenCallers == {1, 2}

NextGen ==
    \/ \E c \in GenCallers : GenCall(c)
    \/ \E c \in GenCallers : Poll(c)
    \/ \E c \in GenCallers : Respond(c)
    \/ \E c \in GenCallers : Retry(c)
    \/ Tick

SpecGen == InitGen /\ [][NextGen]_vars

----------------------------------------------------------------------------
(* The RateLimiter alone: every caller calls waitForSlot again and again *)

\* one checkLimit by caller c inside waitForSlot: return when admitted,
\* sleep 1000 ms when refused
SlotCheck(c) ==
    LET cl == CheckLimit(requests, now)
    IN  /\ requests' = cl.requests
        /\ admissions' = IF cl.admitted THEN Append(admissions, now) ELSE admissions
        /\ lastCheck' = [full |-> Len(InWindow(requests, now)) >= Limit,
                         admitted |-> cl.admitted,
                         recorded |-> Len(cl.requests) > Len(InWindow(requests, now))]
        /\ IF cl.admitted THEN
               /\ gpc' = [gpc EXCEPT ![c] = "idle"]
               /\ UNCHANGED timer
           ELSE
               /\ gpc' = [gpc EXCEPT ![c] = "polling"]
               /\ timer' = [timer EXCEPT ![c] = 1]

\* waitForSlot is called: its first checkLimit runs at once
WaitForSlot(c) ==
    /\ gpc[c] = "idle"
    /\ SlotCheck(c)
    /\ UNCHANGED <<now, retries, attempt, httpCalls, settled, lastOutcome, only429, waits>>
    /\ UNCHANGED <<extractVars, postVars, libVars>>

\* the 1000 ms timer of waitForSlot fired
PollSlot(c) ==
    /\ gpc[c] = "polling"
    /\ timer[c] = 0
    /\ SlotCheck(c)
    /\ UNCHANGED <<now, retries, attempt, httpCalls, settled, lastOutcome, only429, waits>>
    /\ UNCHANGED <<extractVars, postVars, libVars>>

NextLimiter ==
    \/ \E c \in Callers : WaitForSlot(c)
    \/ \E c \in Callers : PollSlot(c)
    \/ Tick

SpecLimiter == InitGen /\ [][NextLimiter]_vars

----------------------------------------------------------------------------
(* Properties of generateContent (SpecGen) and of the RateLimiter          *)
(* (SpecLimiter)                                                           *)

\* the delays 2^1, 2^2, ..., 2^n
BackoffLadder(n) == [i \in 1..n |-> Pow2(i)]

\* C7 as claimed: when every attempt receives HTTP 429 the call makes its
\* first attempt and then `retries` retries, that is retries + 1 fetches,
\* before it fails.
C7_RetriesPlusOne ==
    \A c \in GenCallers :
        (gpc[c] = "failed" /\ only429[c] /\ settled[c] > 0) =>
            httpCalls[c] = retries[c] + 1

\* C7 as the code has it: when every attempt receives HTTP 429 the call
\* makes `retries` fetches in all (the first and retries - 1 retries),
\* sleeps 2^attempt seconds after each of them, the last included, then
\* fails; it never returns text and never fetches more than that.
C7_RetriesAttemptsThenFail ==
    \A c \in GenCallers :
        /\ httpCalls[c] <= retries[c]
        /\ only429[c] =>
              /\ gpc[c] # "returned"
              /\ waits[c] = BackoffLadder(settled[c])
        /\ (gpc[c] = "failed" /\ only429[c]) =>
              /\ httpCalls[c] = retries[c]
              /\ settled[c] = retries[c]
              /\ waits[c] = BackoffLadder(retries[c])

\* C7 witness: two attempts, both answered with 429, delays of 2 and 4
\* seconds, then the failure
C7_Witness ==
    \E c \in GenCallers :
        /\ gpc[c] = "failed"
        /\ only429[c]
        /\ retries[c] = 2
        /\ httpCalls[c] = 2
        /\ waits[c] = <<2, 4>>

C9_AtMostLimitPerWindow ==
    /\ \A t \in 0..MaxTime :
          Cardinality({i \in DOMAIN admissions :
                          t <= admissions[i] /\ admissions[i] < t + WindowTicks}) <= Limit
    /\ lastCheck.full => (~lastCheck.admitted /\ ~lastCheck.recorded)

\* C9 witness: the window is full, a caller was refused and sleeps, and an
\* earlier refused caller got in once the window had moved on
C9_Witness ==
    /\ lastCheck.full
    /\ Len(admissions) = Limit
    /\ \E c \in Callers : gpc[c] = "polling"
    /\ \E i \in DOMAIN admissions : admissions[i] >= WindowTicks

----------------------------------------------------------------------------
(* POST /api/extract-books.  The Gemini client is configured (its          *)
(* constructor does not throw) and the extraction cache answers every call. *)
(* A book is known by its normalised "title|author" key; the confidence    *)
(* figures of the response are left out.                                   *)

\* batchSize when the body has none
DefaultBatchSize == 5

\* an element of the episodes array that is JSON null
NullEpisode == 0

\* a raw book whose author is missing: validateBookData rejects it
InvalidBook == 0

\* the books <<1, ..., n>>
FirstBooks(n) == [i \in 1..n |-> i]

\* the raw book arrays an extraction result can carry
RawLists == {<<>>, <<InvalidBook, 1>>, FirstBooks(NumBooks)}

\* episodes arrays: the episode at position p has id p; at most one
\* element is null
EpisodeLists ==
    {[p \in 1..n |-> IF p = k THEN NullEpisode ELSE p] :
        n \in 0..NumEpisodes, k \in 0..NumEpisodes}

BatchSizes == ((0 - 1)..(NumEpisodes - 1)) \cup {DefaultBatchSize}

\* request bodies that carry an episodes array
Requests ==
    [hasEpisodes : {TRUE}, episodes : EpisodeLists, batchSize : BatchSizes,
     refresh : BOOLEAN, enableMultiPass : BOOLEAN, preserveContext : BOOLEAN]

Max(a, b) == IF a > b THEN a ELSE b

Min(a, b) == IF a < b THEN a ELSE b

\* Array.prototype.slice(start, end) on an array of length len: the
\* positions (1-based) of the elements it returns
Slice(len, start, end) ==
    LET from == IF start < 0 THEN Max(len + start, 0) ELSE Min(start, len)
        to == IF end < 0 THEN Max(len + end, 0) ELSE Min(end, len)
    IN  [j \in 1..Max(to - from, 0) |-> from + j]

\* what an extraction call can settle with: a throw, the value null, an
\* object without a books array, a books array with a book that has no
\* title, or a books array of raw books.  The object extractBooksFromEpisode
\* builds for a multi-pass run has no contextPreserved field; initialContext
\* is the contextPreserved of the run's initial pass, which stays inside the
\* client
ExtractionOutcomes(enableMultiPass) ==
    {[kind |-> k, multiPass |-> FALSE, books |-> <<>>, contextPreserved |-> "",
      initialContext |-> ""] :
        k \in {"throws", "null", "nobooks", "untitled"}}
    \cup [kind : {"books"}, multiPass : {FALSE}, books : RawLists,
          contextPreserved : ContextValues, initialContext : {""}]
    \cup [kind : {"books"}, multiPass : {enableMultiPass}, books : RawLists,
          contextPreserved : {""},
          initialContext : IF enableMultiPass THEN ContextValues ELSE {""}]

\* the valid books of a raw array, as books of episode id
ValidBooks(raw, id) ==
    LET valid(b) == b # InvalidBook
        kept == SelectSeq(raw, valid)
    IN  [i \in 1..Len(kept) |-> [key |-> kept[i], episodeId |-> id]]

\* how many books of a raw array validateBookData rejects
InvalidCount(raw) ==
    LET invalid(b) == b = InvalidBook
    IN  Len(SelectSeq(raw, invalid))

\* an entry of the errors array: what failed and the episode's position
ErrorEntry(kind, p) == [kind |-> kind, pos |-> p]

RECURSIVE MergeDuplicateBooks(_)
\* mergeDuplicateBooks: the first book of every key, in order of first sight
MergeDuplicateBooks(books) ==
    IF books = <<>> THEN <<>>
    ELSE LET front == MergeDuplicateBooks(SubSeq(books, 1, Len(books) - 1))
             last == books[Len(books)]
         IN  IF \E i \in DOMAIN front : front[i].key = last.key
             THEN front
             ELSE Append(front, last)

\* the state of one task of the running batch; initial is the
\* contextPreserved of the initial pass of the multi-pass run that settled it
Task(at, value, preserved) ==
    [pc |-> at, value |-> value, preserved |-> preserved, initial |-> ""]

\* what became of the episode at a position of the request
Fate(kind, books) == [kind |-> kind, books |-> books]

NoStats == [multiPassEpisodes |-> 0, simplePassEpisodes |-> 0]

\* getPreservedContext, when preserveContext is on
PreservedContext(req, id) == IF req.preserveContext THEN contextCache[id] ELSE ""

\* batch.map(async ...) on the batch at positions b: each task runs to its
\* first await.  A null episode throws in the try block and again in the
\* catch block (episode.title), so its promise is rejected at once; with
\* refresh the extraction call is made at once, otherwise the cache lookup.
StartTasks(req, b) ==
    [j \in DOMAIN b |->
        LET id == req.episodes[b[j]]
        IN  IF id = NullEpisode THEN Task("rejected", <<>>, "")
            ELSE IF req.refresh THEN Task("extract", <<>>, PreservedContext(req, id))
            ELSE Task("lookup", <<>>, "")]

\* the fates once the tasks of batch b have started
Started(f, req, b) ==
    [p \in DOMAIN f |->
        IF (\E j \in DOMAIN b : b[j] = p) /\ req.episodes[p] = NullEpisode
        THEN Fate("rejected", <<>>)
        ELSE f[p]]

\* the response is built from the locals and sent
Responds(all, errs, proc, st) ==
    /\ phase' = "responded"
    /\ response' = [status |-> 200, success |-> TRUE,
                    books |-> MergeDuplicateBooks(all), errors |-> errs,
                    processedEpisodes |-> proc, extractionStats |-> st]
    /\ idx' = 0
    /\ batch' = <<>>
    /\ tasks' = <<>>
    /\ allBooks' = <<>>
    /\ errors' = <<>>
    /\ processedEpisodes' = 0
    /\ stats' = NoStats

\* the loop variable became i: the next batch when i < episodes.length,
\* the response otherwise
Continue(req, i, all, errs, proc, st, f, iter) ==
    IF i < Len(req.episodes) THEN
        LET b == Slice(Len(req.episodes), i, i + req.batchSize)
        IN  /\ phase' = "batch"
            /\ idx' = i
            /\ batch' = b
            /\ tasks' = StartTasks(req, b)
            /\ fate' = Started(f, req, b)
            /\ iterations' = iter + 1
            /\ allBooks' = all
            /\ errors' = errs
            /\ processedEpisodes' = proc
            /\ stats' = st
            /\ response' = NoResponse
    ELSE
        /\ Responds(all, errs, proc, st)
        /\ fate' = f
        /\ iterations' = iter

\* POST with a body that carries an episodes array
Request ==
    /\ phase = "idle"
    /\ \E req \in Requests :
        /\ request' = req
        /\ Continue(req, 0, <<>>, <<>>, 0, NoStats,
                    [p \in DOMAIN req.episodes |-> Fate("none", <<>>)], 0)
    /\ UNCHANGED <<cache, contextCache>>
    /\ UNCHANGED <<extractVars, genVars, libVars>>

\* POST with a body without an episodes array: 400
BadRequest ==
    /\ phase = "idle"
    /\ request' = NoRequest
    /\ phase' = "responded"
    /\ response' = [NoResponse EXCEPT !.status = 400]
    /\ fate' = <<>>
    /\ iterations' = 0
    /\ UNCHANGED <<idx, batch, tasks, allBooks, errors, processedEpisodes, stats,
                   cache, contextCache>>
    /\ UNCHANGED <<extractVars, genVars, libVars>>

\* getCache answered task k: a cached array, the empty one included, is
\* returned as the task's books; without one the extraction call is made
TaskLookup(k) ==
    /\ phase = "batch"
    /\ k \in DOMAIN tasks
    /\ tasks[k].pc = "lookup"
    /\ LET p == batch[k]
           id == request.episodes[p]
       IN  IF cache[id].present THEN
               LET books == [i \in DOMAIN cache[id].books |->
                                [cache[id].books[i] EXCEPT !.episodeId = id]]
               IN  /\ tasks' = [tasks EXCEPT ![k] = Task("fulfilled", books, "")]
                   /\ fate' = [fate EXCEPT ![p] = Fate("cached", books)]
           ELSE
               /\ tasks' = [tasks EXCEPT ![k] =
                               Task("extract", <<>>, PreservedContext(request, id))]
               /\ UNCHANGED fate
    /\ UNCHANGED <<phase, request, idx, batch, allBooks, errors, processedEpisodes,
                   stats, response, cache, contextCache, iterations>>
    /\ UNCHANGED <<extractVars, genVars, libVars>>

\* multiPassEpisodes++ or simplePassEpisodes++
Counted(st, multiPass) ==
    IF multiPass
    THEN [st EXCEPT !.multiPassEpisodes = @ + 1]
    ELSE [st EXCEPT !.simplePassEpisodes = @ + 1]

\* n entries "Invalid book" for the episode at position p
InvalidEntries(n, p) == [i \in 1..n |-> ErrorEntry("invalid", p)]

\* a mutant of TaskFails: the catch block caches the empty result
TaskFailsCached(k, p) ==
    /\ tasks' = [tasks EXCEPT ![k] = Task("fulfilled", <<>>, tasks[k].preserved)]
    /\ errors' = Append(errors, ErrorEntry("extract", p))
    /\ fate' = [fate EXCEPT ![p] = Fate("failed", <<>>)]
    /\ cache' = [cache EXCEPT ![request.episodes[p]] =
                    [present |-> TRUE, books |-> <<>>]]
    /\ UNCHANGED contextCache

\* the catch block of a task: the error is recorded and the task returns []
TaskFails(k, p) ==
    /\ tasks' = [tasks EXCEPT ![k] = Task("fulfilled", <<>>, tasks[k].preserved)]
    /\ errors' = Append(errors, ErrorEntry("extract", p))
    /\ fate' = [fate EXCEPT ![p] = Fate("failed", <<>>)]
    /\ UNCHANGED <<cache, contextCache>>

\* the extraction call of task k settled, and the task runs to its end
TaskExtract(k) ==
    /\ phase = "batch"
    /\ k \in DOMAIN tasks
    /\ tasks[k].pc = "extract"
    /\ \E o \in ExtractionOutcomes(request.enableMultiPass) :
        LET p == batch[k]
            id == request.episodes[p]
            valid == ValidBooks(o.books, id)
        IN  CASE o.kind \in {"throws", "null"} ->
                    /\ TaskFails(k, p)
                    /\ UNCHANGED stats
              [] o.kind = "untitled" ->
                    /\ TaskFails(k, p)
                    /\ stats' = Counted(stats, o.multiPass)
              [] o.kind = "nobooks" ->
                    /\ stats' = Counted(stats, o.multiPass)
                    /\ cache' = [cache EXCEPT ![id] = [present |-> TRUE, books |-> <<>>]]
                    /\ tasks' = [tasks EXCEPT ![k] =
                                    Task("fulfilled", <<>>, tasks[k].preserved)]
                    /\ fate' = [fate EXCEPT ![p] = Fate("ok", <<>>)]
                    /\ UNCHANGED <<errors, contextCache>>
              [] o.kind = "books" ->
                    /\ stats' = Counted(stats, o.multiPass)
                    /\ errors' = errors \o InvalidEntries(InvalidCount(o.books), p)
                    /\ contextCache' =
                          IF request.preserveContext /\ o.contextPreserved # ""
                          THEN [contextCache EXCEPT ![id] = o.contextPreserved]
                          ELSE contextCache
                    /\ cache' = [cache EXCEPT ![id] = [present |-> TRUE, books |-> valid]]
                    /\ tasks' = [tasks EXCEPT ![k] =
                                    [Task("fulfilled", valid, tasks[k].preserved)
                                        EXCEPT !.initial = o.initialContext]]
                    /\ fate' = [fate EXCEPT ![p] = Fate("ok", valid)]
    /\ UNCHANGED <<phase, request, idx, batch, allBooks, processedEpisodes,
                   response, iterations>>
    /\ UNCHANGED <<extractVars, genVars, libVars>>

RECURSIVE CollectBatch(_, _, _, _, _, _, _)
\* batchResults.forEach from index k on: a fulfilled task adds its books; a
\* rejected one adds an error naming its episode, and when that episode is
\* null reading its title throws, which ends the forEach in the catch block
\* around it
CollectBatch(k, ts, b, eps, all, errs, proc) ==
    IF k > Len(ts) THEN
        [allBooks |-> all, errors |-> errs, processedEpisodes |-> proc]
    ELSE IF ts[k].pc = "fulfilled" THEN
        CollectBatch(k + 1, ts, b, eps, all \o ts[k].value, errs, proc + 1)
    ELSE IF eps[b[k]] = NullEpisode THEN
        [allBooks |-> all, errors |-> Append(errs, ErrorEntry("batch", b[k])),
         processedEpisodes |-> proc]
    ELSE
        CollectBatch(k + 1, ts, b, eps, all,
                     Append(errs, ErrorEntry("process", b[k])), proc)

\* Promise.allSettled resolved: the results are collected; the delay
\* follows when i + batchSize < episodes.length, the response otherwise
BatchSettled ==
    /\ phase = "batch"
    /\ \A k \in DOMAIN tasks : tasks[k].pc \in {"fulfilled", "rejected"}
    /\ LET c == CollectBatch(1, tasks, batch, request.episodes,
                             allBooks, errors, processedEpisodes)
       IN  IF idx + request.batchSize < Len(request.episodes) THEN
               /\ phase' = "delay"
               /\ allBooks' = c.allBooks
               /\ errors' = c.errors
               /\ processedEpisodes' = c.processedEpisodes
               /\ UNCHANGED <<idx, batch, tasks, stats, response, fate,
                              iterations>>
           ELSE
               /\ Responds(c.allBooks, c.errors, c.processedEpisodes, stats)
               /\ UNCHANGED <<fate, iterations>>
    /\ UNCHANGED <<request, cache, contextCache>>
    /\ UNCHANGED <<extractVars, genVars, libVars>>

\* the 1000 ms between two batches are over: i += batchSize
DelayOver ==
    /\ phase = "delay"
    /\ iterations < MaxIterations
    /\ Continue(request, idx + request.batchSize, allBooks, errors,
                processedEpisodes, stats, fate, iterations)
    /\ UNCHANGED <<request, cache, contextCache>>
    /\ UNCHANGED <<extractVars, genVars, libVars>>

\* the handler returned its response: its locals are gone, the caches stay
Return ==
    /\ phase = "responded"
    /\ phase' = "idle"
    /\ request' = NoRequest
    /\ response' = NoResponse
    /\ fate' = <<>>
    /\ iterations' = 0
    /\ UNCHANGED <<idx, batch, tasks, allBooks, errors, processedEpisodes, stats,
                   cache, contextCache>>
    /\ UNCHANGED <<extractVars, genVars, libVars>>

InitPost == PostIdle /\ GenIdle /\ ExtractIdle /\ LibIdle

NextPost ==
    \/ Request
    \/ BadRequest
    \/ \E k \in 1..NumEpisodes : TaskLookup(k)
    \/ \E k \in 1..NumEpisodes : TaskExtract(k)
    \/ BatchSettled
    \/ DelayOver
    \/ Return

SpecPost == InitPost /\ [][NextPost]_vars

----------------------------------------------------------------------------
(* Properties of POST /api/extract-books (SpecPost) *)

\* the response carries book b
InResponse(b) == \E j \in DOMAIN response.books : response.books[j].key = b.key

\* the response carries an error entry for the episode at position p
ErrorFor(p) == \E i \in DOMAIN response.errors : response.errors[i].pos = p

\* C10: when one episode's task fails no other task of its batch or of a
\* later batch is cancelled or discarded: the response to a request with an
\* episodes array has success = true, carries the books of every episode
\* whose task returned books (from the extraction or from the cache) and an
\* error entry for every episode whose task failed.
C10_FailuresIsolated ==
    (phase = "responded" /\ request.hasEpisodes) =>
        /\ response.success
        /\ \A p \in DOMAIN fate :
              /\ fate[p].kind \in {"ok", "cached"} =>
                    \A i \in DOMAIN fate[p].books : InResponse(fate[p].books[i])
              /\ fate[p].kind \in {"failed", "rejected"} => ErrorFor(p)

----------------------------------------------------------------------------
(* lib/merge-books.ts: mergeDuplicateBooks on an in-memory list.  A string  *)
(* is a sequence of one-character strings; a field that may be undefined   *)
(* is a record [defined, ...].                                             *)

\* longest input list
MaxMergeLen == 2

RECURSIVE TrimStart(_)
TrimStart(s) == IF s # <<>> /\ s[1] = " " THEN TrimStart(Tail(s)) ELSE s

RECURSIVE TrimEnd(_)
TrimEnd(s) ==
    IF s # <<>> /\ s[Len(s)] = " " THEN TrimEnd(SubSeq(s, 1, Len(s) - 1)) ELSE s

\* String.prototype.trim
Trim(s) == TrimEnd(TrimStart(s))

\* the letters a, b, k, o, x and y occur in both cases
LowerOf(c) ==
    CASE c = "A" -> "a" [] c = "B" -> "b" [] c = "K" -> "k" [] c = "O" -> "o"
      [] c = "X" -> "x" [] c = "Y" -> "y" [] OTHER -> c

UpperOf(c) ==
    CASE c = "a" -> "A" [] c = "b" -> "B" [] c = "k" -> "K" [] c = "o" -> "O"
      [] c = "x" -> "X" [] c = "y" -> "Y" [] OTHER -> c

\* String.prototype.toLowerCase
ToLowerCase(s) == [i \in DOMAIN s |-> LowerOf(s[i])]

\* String.prototype.toUpperCase
ToUpperCase(s) == [i \in DOMAIN s |-> UpperOf(s[i])]

\* String.prototype.includes
Includes(s, sub) ==
    \E i \in 1..(Len(s) + 1) :
        /\ i + Len(sub) - 1 <= Len(s)
        /\ SubSeq(s, i, i + Len(sub) - 1) = sub

RECURSIVE Dedup(_)
\* Array.from(new Set(s)): the first occurrence of every element, in order
Dedup(s) ==
    IF s = <<>> THEN <<>>
    ELSE LET front == Dedup(SubSeq(s, 1, Len(s) - 1))
             last == s[Len(s)]
         IN  IF \E i \in DOMAIN front : front[i] = last THEN front
             ELSE Append(front, last)

Undefined == [defined |-> FALSE, value |-> <<>>]

Defined(v) == [defined |-> TRUE, value |-> v]

\* x || dflt for a string or an array field: undefined and "" give dflt (an
\* empty array is truthy and is itself)
OrElse(x, dflt) == IF x.defined /\ x.value # <<>> THEN x.value ELSE dflt

\* the key under which mergeDuplicateBooks files a book
MergeKey(book) ==
    ToLowerCase(Trim(book.title)) \o <<"|">> \o ToLowerCase(Trim(book.author))

\* a mutant of FirstSeen: the links are copied twice
FirstSeenDoublesLinks(book) ==
    [book EXCEPT !.extractedLinks =
                     Defined(OrElse(@, <<>>) \o OrElse(@, <<>>)),
                 !.context = Defined(OrElse(@, <<>>))]

\* the record stored for a key seen for the first time
FirstSeen(book) ==
    [book EXCEPT !.extractedLinks = Defined(OrElse(@, <<>>)),
                 !.context = Defined(OrElse(@, <<>>))]

\* the record stored when book joins the record existing already has
Folded(existing, book) ==
    LET mergedLinks == Dedup(OrElse(existing.extractedLinks, <<>>)
                             \o OrElse(book.extractedLinks, <<>>))
        ctx == OrElse(existing.context, <<>>)
        bctx == OrElse(book.context, <<>>)
        mergedContext ==
            IF bctx # <<>> /\ ~Includes(ctx, bctx)
            THEN IF ctx # <<>> THEN ctx \o <<" ", "|", " ">> \o bctx ELSE bctx
            ELSE ctx
        earliestDate == IF existing.episodeDate < book.episodeDate
                        THEN existing.episodeDate ELSE book.episodeDate
    IN  [existing EXCEPT !.extractedLinks = Defined(mergedLinks),
                         !.context = Defined(mergedContext),
                         !.episodeDate = earliestDate]

RECURSIVE BookMap(_)
\* bookMap after books.forEach: its entries [key, book] in insertion order
BookMap(books) ==
    IF books = <<>> THEN <<>>
    ELSE LET m == BookMap(SubSeq(books, 1, Len(books) - 1))
             book == books[Len(books)]
             key == MergeKey(book)
         IN  IF \E i \in DOMAIN m : m[i].key = key
             THEN [i \in DOMAIN m |->
                      IF m[i].key = key
                      THEN [key |-> key, book |-> Folded(m[i].book, book)]
                      ELSE m[i]]
             ELSE Append(m, [key |-> key, book |-> FirstSeen(book)])

\* mergeDuplicateBooks: Array.from(bookMap.values())
mergeDuplicateBooks(books) ==
    LET m == BookMap(books) IN [i \in DOMAIN m |-> m[i].book]

\* titles and authors: different case and padding, and the character the
\* key uses as its separator
MergeTitles == {<<"a">>, <<" ", "A">>, <<"a", "|", "b">>}

MergeAuthors == {<<"c">>, <<"b", "|", "c">>}

\* link arrays: none, one with a repeated link, one with two links
MergeLinks == {Undefined, Defined(<<"x", "x">>), Defined(<<"y", "x">>)}

\* the context a book of episode e can carry: none, or the episode's
MergeContexts(e) == {Undefined, Defined(<<IF e = 1 THEN "x" ELSE "y">>)}

\* the books of episodes 1 and 2; an episode's date is its number
MergeBooks ==
    UNION {{[title |-> t, author |-> a, extractedLinks |-> l, context |-> c,
             episodeDate |-> e, episodeId |-> e] :
               t \in MergeTitles, a \in MergeAuthors, l \in MergeLinks,
               c \in MergeContexts(e)} : e \in {1, 2}}

\* the caller adds a book to the list it will pass
MergePush ==
    /\ call = "none"
    /\ Len(arg) < MaxMergeLen
    /\ \E b \in MergeBooks : arg' = Append(arg, b)
    /\ UNCHANGED <<call, out, again, store, run>>
    /\ UNCHANGED <<extractVars, genVars, postVars>>

\* mergeDuplicateBooks(arg)
MergeCall ==
    /\ call = "none"
    /\ call' = "merge"
    /\ out' = mergeDuplicateBooks(arg)
    /\ UNCHANGED <<arg, again, store, run>>
    /\ UNCHANGED <<extractVars, genVars, postVars>>

\* mergeDuplicateBooks applied to its own result
MergeAgain ==
    /\ call = "merge"
    /\ call' = "merged"
    /\ again' = mergeDuplicateBooks(out)
    /\ UNCHANGED <<arg, out, store, run>>
    /\ UNCHANGED <<extractVars, genVars, postVars>>

InitMerge == LibIdle /\ ExtractIdle /\ GenIdle /\ PostIdle

NextMerge == MergePush \/ MergeCall \/ MergeAgain

SpecMerge == InitMerge /\ [][NextMerge]_vars

\* title and author of a book, trimmed and lowercased
NormalizedPair(book) ==
    <<ToLowerCase(Trim(book.title)), ToLowerCase(Trim(book.author))>>

RECURSIVE Concat(_)
\* the elements of a sequence of sequences, in order
Concat(ss) == IF ss = <<>> THEN <<>> ELSE Head(ss) \o Concat(Tail(ss))

\* the links of the input books filed under the key of record r, in order
GroupLinks(r) ==
    LET same(b) == MergeKey(b) = MergeKey(r)
        group == SelectSeq(arg, same)
    IN  Concat([i \in DOMAIN group |-> OrElse(group[i].extractedLinks, <<>>)])

\* C11: mergeDuplicateBooks is idempotent: merging its own result gives the
\* same list, record for record, field for field, in the same order.
C11_MergeIdempotent == call = "merged" => again = out

\* C11 witness: two books were folded into one record, with joined contexts
\* and links, and that record was merged again
C11_Witness ==
    /\ call = "merged"
    /\ Len(arg) = 2
    /\ Len(out) = 1
    /\ out[1].context = Defined(<<"y", " ", "|", " ", "x">>)
    /\ out[1].extractedLinks = Defined(<<"x", "y">>)
    /\ out[1].episodeDate = 1
    /\ arg[1].episodeDate = 2

\* C12: two input books end in one output record exactly when their titles
\* are equal and their authors are equal after trimming and lowercasing, so
\* the output has one record for each distinct normalized (title, author)
\* pair of the input.
C12_OneRecordPerPair ==
    call = "merge" =>
        /\ \A i, j \in DOMAIN arg :
              (MergeKey(arg[i]) = MergeKey(arg[j]))
                  <=> (NormalizedPair(arg[i]) = NormalizedPair(arg[j]))
        /\ Len(out) = Cardinality({NormalizedPair(arg[i]) : i \in DOMAIN arg})

\* C13: every output record's extractedLinks has no duplicate and is the
\* first-seen-first union of the links of the input books sharing its key,
\* also when only one input book has that key.
C13_LinksAreUnion ==
    call = "merge" =>
        \A k \in DOMAIN out :
            LET links == out[k].extractedLinks.value
            IN  /\ \A i, j \in DOMAIN links : links[i] = links[j] => i = j
                /\ links = Dedup(GroupLinks(out[k]))

----------------------------------------------------------------------------
(* lib/data-cleaning.ts: DataCleaner.mergeDuplicateBooks on the books       *)
(* table.  The procedure is the only writer of the table while it runs,    *)
(* and every update and delete succeeds.                                   *)

\* most rows in the table
MaxStoreLen == 3

\* (title, author) of the rows: two spellings of one pair and another pair
StorePairs == {<<<<"a">>, <<"c">>>>, <<<<"A", " ">>, <<" ", "c">>>>,
               <<<<"b">>, <<"c">>>>}

\* extracted_links of a row: null, or an array
StoreLinks == {Undefined, Defined(<<"x">>), Defined(<<"y", "x">>)}

\* the row the table gets with the next id; its context is its episode's
StoreRows(id) ==
    {[id |-> id, title |-> p[1], author |-> p[2], extracted_links |-> l,
      context |-> IF d = 1 THEN Defined(<<"x">>) ELSE Undefined,
      episode_date |-> d] :
        p \in StorePairs, l \in StoreLinks, d \in {1, 2}}

\* a mutant of AreBooksEqual: titles and authors compared as they are
AreBooksEqualExact(book1, book2) ==
    book1.title = book2.title /\ book1.author = book2.author

\* DataCleaner.areBooksEqual
AreBooksEqual(book1, book2) ==
    /\ Trim(ToLowerCase(book1.title)) = Trim(ToLowerCase(book2.title))
    /\ Trim(ToLowerCase(book1.author)) = Trim(ToLowerCase(book2.author))

RECURSIVE FindDuplicateGroups(_, _, _)
\* DataCleaner.findDuplicateGroups from the k-th book on; processed is the
\* set of ids already placed
FindDuplicateGroups(books, k, processed) ==
    IF k > Len(books) THEN <<>>
    ELSE IF books[k].id \in processed THEN
        FindDuplicateGroups(books, k + 1, processed)
    ELSE
        LET dup(b) == /\ b.id # books[k].id
                      /\ b.id \notin processed
                      /\ AreBooksEqual(books[k], b)
            duplicates == SelectSeq(books, dup)
            group == <<books[k]>> \o duplicates
            ids == {group[i].id : i \in DOMAIN group}
        IN  IF duplicates # <<>>
            THEN <<group>> \o FindDuplicateGroups(books, k + 1, processed \cup ids)
            ELSE FindDuplicateGroups(books, k + 1, processed \cup {books[k].id})

RECURSIVE Join(_)
\* Array.prototype.join(' | ')
Join(ss) ==
    IF ss = <<>> THEN <<>>
    ELSE IF Len(ss) = 1 THEN ss[1]
    ELSE ss[1] \o <<" ", "|", " ">> \o Join(Tail(ss))

RECURSIVE MinOf(_)
\* the first element of dates.sort()
MinOf(ds) ==
    IF Len(ds) = 1 THEN ds[1]
    ELSE LET m == MinOf(Tail(ds)) IN IF ds[1] < m THEN ds[1] ELSE m

\* DataCleaner.mergeBookGroup: the fields written to the group's first row
MergeBookGroup(books) ==
    LET allLinks == Dedup(Concat([i \in DOMAIN books |->
                                     OrElse(books[i].extracted_links, <<>>)]))
        named(b) == b.context.defined /\ Trim(b.context.value) # <<>>
        withContext == SelectSeq(books, named)
        allContexts == Dedup([i \in DOMAIN withContext |->
                                 withContext[i].context.value])
    IN  [extracted_links |-> Defined(allLinks),
         context |-> Defined(Join(allContexts)),
         episode_date |-> MinOf([i \in DOMAIN books |-> books[i].episode_date])]

\* a row is inserted into the table before the procedure runs
StoreInsert ==
    /\ call = "none"
    /\ Len(store) < MaxStoreLen
    /\ \E r \in StoreRows(Len(store) + 1) : store' = Append(store, r)
    /\ UNCHANGED <<call, arg, out, again, run>>
    /\ UNCHANGED <<extractVars, genVars, postVars>>

\* BookDatabase.updateBook(id, updates) on the rows
UpdateBook(rows, id, updates) ==
    [k \in DOMAIN rows |->
        IF rows[k].id = id
        THEN [rows[k] EXCEPT !.extracted_links = updates.extracted_links,
                             !.context = updates.context,
                             !.episode_date = updates.episode_date]
        ELSE rows[k]]

\* BookDatabase.deleteBook(id) on the rows
DeleteBook(rows, id) ==
    LET other(r) == r.id # id IN SelectSeq(rows, other)

\* getAllBooks answered: the groups are formed and the first update is sent
DbMergeStart ==
    /\ call = "none"
    /\ LET groups == FindDuplicateGroups(store, 1, {})
       IN  /\ run' = [groups |-> groups, g |-> 1, i |-> 1, mergedCount |-> 0]
           /\ call' = IF groups = <<>> THEN "dbmerged" ELSE "dbmerge"
    /\ arg' = store
    /\ UNCHANGED <<out, again, store>>
    /\ UNCHANGED <<extractVars, genVars, postVars>>

\* the update of the group's first row is done: its first delete is sent
DbMergeUpdate ==
    /\ call = "dbmerge"
    /\ run.i = 1
    /\ LET group == run.groups[run.g]
       IN  store' = UpdateBook(store, group[1].id, MergeBookGroup(group))
    /\ run' = [run EXCEPT !.i = 2]
    /\ UNCHANGED <<call, arg, out, again>>
    /\ UNCHANGED <<extractVars, genVars, postVars>>

\* a delete is done: the next delete, the next group's update, or the end
DbMergeDelete ==
    /\ call = "dbmerge"
    /\ run.i >= 2
    /\ LET group == run.groups[run.g]
       IN  /\ store' = DeleteBook(store, group[run.i].id)
           /\ IF run.i < Len(group) THEN
                  /\ run' = [run EXCEPT !.i = @ + 1, !.mergedCount = @ + 1]
                  /\ UNCHANGED call
              ELSE
                  /\ run' = [run EXCEPT !.g = @ + 1, !.i = 1, !.mergedCount = @ + 1]
                  /\ call' = IF run.g < Len(run.groups) THEN "dbmerge"
                             ELSE "dbmerged"
    /\ UNCHANGED <<arg, out, again>>
    /\ UNCHANGED <<extractVars, genVars, postVars>>

InitStoreMerge == LibIdle /\ ExtractIdle /\ GenIdle /\ PostIdle

NextStoreMerge == StoreInsert \/ DbMergeStart \/ DbMergeUpdate \/ DbMergeDelete

SpecStoreMerge == InitStoreMerge /\ [][NextStoreMerge]_vars

\* the rows of the table before the run that share row r's normalized key
KeyGroup(r) ==
    LET same(b) == NormalizedPair(b) = NormalizedPair(r) IN SelectSeq(arg, same)

\* the ids in the table
StoredIds == {store[k].id : k \in DOMAIN store}

\* C14: when the store-level mergeDuplicateBooks has run to its end, no two
\* rows share a normalized (title, author) key; of every group of duplicates
\* the first row survives with the union of the group's links, and exactly
\* the other rows of the group are gone.
C14_NoDuplicateLeft ==
    call = "dbmerged" =>
        /\ \A j, k \in DOMAIN store :
              NormalizedPair(store[j]) = NormalizedPair(store[k]) => j = k
        /\ \A n \in DOMAIN arg :
              LET group == KeyGroup(arg[n])
              IN  /\ (arg[n].id \in StoredIds) <=> (arg[n].id = group[1].id)
                  /\ Len(group) >= 2 =>
                        \A k \in DOMAIN store :
                            store[k].id = group[1].id =>
                                store[k].extracted_links =
                                    Defined(Dedup(Concat(
                                        [i \in DOMAIN group |->
                                            OrElse(group[i].extracted_links, <<>>)])))
        /\ run.mergedCount = Len(arg) - Len(store)

\* C14 witness: three spellings of one book were stored; the first row is
\* left and holds the links x and y of the other two
C14_Witness ==
    /\ call = "dbmerged"
    /\ Len(arg) = 3
    /\ Len(store) = 1
    /\ arg[1].extracted_links = Undefined
    /\ arg[1].title # arg[2].title
    /\ store[1].id = 1
    /\ store[1].extracted_links = Defined(<<"x", "y">>)

----------------------------------------------------------------------------
(* confidence scoring: calculateEnhancedConfidence.  Qualities and the     *)
(* supplied confidence are counted in hundredths; the weighted sums are    *)
(* exact decimals, counted in units of 10^-7.                              *)

\* 1.0 in units of 10^-7
One == 10000000

Rep(c, n) == [i \in 1..n |-> c]

IsUpper(c) == c \in {"A", "B", "K", "O", "X", "Y"}

IsLower(c) ==
    c \in {"a", "b", "c", "d", "e", "i", "k", "n", "o", "p", "s", "u", "x", "y", "z"}

IsDigit(c) == c \in {"0", "1", "2", "3", "4", "5", "6", "7", "8", "9"}

IsLetter(c) == IsUpper(c) \/ IsLower(c)

\* /[A-Za-z]{3,}/
HasWord(s) ==
    \E i \in 1..(Len(s) - 2) : \A j \in i..(i + 2) : IsLetter(s[j])

\* /^[A-Z][a-z]+ [A-Z][a-z]+/
ProperName(s) ==
    \E n \in 1..Len(s), m \in 1..Len(s) :
        /\ 1 + n + 1 + 1 + m <= Len(s)
        /\ IsUpper(s[1])
        /\ \A j \in 2..(1 + n) : IsLower(s[j])
        /\ s[2 + n] = " "
        /\ IsUpper(s[3 + n])
        /\ \A j \in (4 + n)..(3 + n + m) : IsLower(s[j])

Bonus(cond, points) == IF cond THEN points ELSE 0

\* analyzeTitleQuality, in hundredths
AnalyzeTitleQuality(title) ==
    LET cleanTitle == Trim(title)
    IN  IF cleanTitle = <<>> THEN 0
        ELSE Min(100,
                 50 + Bonus(Len(cleanTitle) > 3, 20)
                    + Bonus(Len(cleanTitle) > 10, 10)
                    + Bonus(IsUpper(cleanTitle[1]), 10)
                    + Bonus(\E i \in DOMAIN cleanTitle : ~IsDigit(cleanTitle[i]), 10)
                    + Bonus(Includes(cleanTitle, <<":">>), 5)
                    + Bonus(HasWord(cleanTitle), 5))

\* analyzeAuthorQuality, in hundredths
AnalyzeAuthorQuality(author) ==
    LET cleanAuthor == Trim(author)
    IN  IF cleanAuthor = <<>> THEN 0
        ELSE Min(100,
                 50 + Bonus(Len(cleanAuthor) > 3, 20)
                    + Bonus(Includes(cleanAuthor, <<" ">>), 20)
                    + Bonus(ProperName(cleanAuthor), 10))

\* analyzeContextQuality, in hundredths
AnalyzeContextQuality(context) ==
    LET cleanContext == Trim(OrElse(context, <<>>))
        lower == ToLowerCase(cleanContext)
    IN  IF cleanContext = <<>> THEN 0
        ELSE Min(100,
                 30 + Bonus(Len(cleanContext) > 20, 20)
                    + Bonus(Len(cleanContext) > 50, 20)
                    + Bonus(Len(cleanContext) > 100, 10)
                    + Bonus(Includes(cleanContext, <<"e", "p", "i", "s", "o", "d", "e">>), 10)
                    + Bonus(Includes(cleanContext, <<"d", "i", "s", "c", "u", "s", "s">>)
                            \/ Includes(cleanContext, <<"b", "a", "s", "e", "d", " ", "o", "n">>), 10)
                    + Bonus(\E w \in {<<"b", "e", "c", "a", "u", "s", "e">>, <<"s", "i", "n", "c", "e">>, <<"a", "s">>, <<"e", "x", "p", "l", "a", "i", "n", "s">>, <<"d", "e", "s", "c", "r", "i", "b", "e", "s">>} :
                                Includes(lower, w), 10))

NoConfidence == [defined |-> FALSE, value |-> 0]

Confidence(v) == [defined |-> TRUE, value |-> v]

\* the truth value JavaScript gives llmConfidence: undefined and 0 are false
Truthy(llmConfidence) == llmConfidence.defined /\ llmConfidence.value # 0

\* calculateEnhancedConfidence
CalculateEnhancedConfidence(book, llmConfidence, extractionMethod) ==
    LET titleQuality == AnalyzeTitleQuality(book.title)
        authorQuality == AnalyzeAuthorQuality(book.author)
        contextQuality == AnalyzeContextQuality(book.context)
        linksPresent == IF OrElse(book.extractedLinks, <<>>) # <<>> THEN 10 ELSE 0
        \* (tq * 0.3 + aq * 0.3 + cq * 0.3 + lp * 0.1) * 0.4
        heuristicScore == (30 * titleQuality + 30 * authorQuality
                           + 30 * contextQuality + 10 * linksPresent) * 4 * 100
        llmScore == IF Truthy(llmConfidence)
                    THEN llmConfidence.value * 50000
                    ELSE (heuristicScore * 5) \div 4
        methodBonus == IF extractionMethod = "multi-pass" THEN One \div 10
                       ELSE One \div 20
        finalScore == Max(0, Min(One, heuristicScore + llmScore + methodBonus))
        needsReview == \/ finalScore < 7 * (One \div 10)
                       \/ titleQuality < 50
                       \/ authorQuality < 50
                       \/ (~Truthy(llmConfidence) /\ extractionMethod # "multi-pass")
    IN  [score |-> (finalScore + 50000) \div 100000,
         finalScore |-> finalScore,
         titleQuality |-> titleQuality,
         authorQuality |-> authorQuality,
         contextQuality |-> contextQuality,
         needsReview |-> needsReview]

ConfidenceTitles ==
    {<<>>, <<" ">>, <<"1", "2">>, <<"a", "b">>, <<"A", "b", "c", "d">>, <<"A", "b", "c", "d", "e", "i", "o", "p", "s", "u", ":", " ", "z">>}

ConfidenceAuthors ==
    {<<>>, <<"a", "b">>, <<"a", "b", "c", "d">>, <<"A", "b", " ", "A", "b">>}

ConfidenceContexts ==
    {Undefined, Defined(<<" ">>), Defined(Rep("z", 21)), Defined(Rep("z", 51)),
     Defined(<<"e", "p", "i", "s", "o", "d", "e", " ", "d", "i", "s", "c", "u", "s", "s", " ", "a", "s", " ">> \o Rep("z", 80))}

ConfidenceLinks == {Undefined, Defined(<<>>), Defined(<<<<"x">>>>)}

\* llmConfidence in hundredths: not supplied, or a number in [0, 1]
LlmConfidences == {NoConfidence} \cup {Confidence(v) : v \in {0, 30, 60, 90, 100}}

ExtractionMethods == {"undefined", "simple", "multi-pass"}

ConfidenceArgs ==
    [book : [title : ConfidenceTitles, author : ConfidenceAuthors,
             context : ConfidenceContexts, extractedLinks : ConfidenceLinks],
     llmConfidence : LlmConfidences,
     extractionMethod : ExtractionMethods]

\* a caller builds the arguments
ConfidenceArgue ==
    /\ call = "none"
    /\ \E a \in ConfidenceArgs : arg' = a
    /\ call' = "argued"
    /\ UNCHANGED <<out, again, store, run>>
    /\ UNCHANGED <<extractVars, genVars, postVars>>

ConfidenceCall ==
    /\ call = "argued"
    /\ out' = CalculateEnhancedConfidence(arg.book, arg.llmConfidence,
                                          arg.extractionMethod)
    /\ call' = "scored"
    /\ UNCHANGED <<arg, again, store, run>>
    /\ UNCHANGED <<extractVars, genVars, postVars>>

ConfidenceReturn ==
    /\ call = "scored"
    /\ call' = "none"
    /\ arg' = <<>>
    /\ out' = <<>>
    /\ UNCHANGED <<again, store, run>>
    /\ UNCHANGED <<extractVars, genVars, postVars>>

InitConfidence == LibIdle /\ ExtractIdle /\ GenIdle /\ PostIdle

NextConfidence == ConfidenceArgue \/ ConfidenceCall \/ ConfidenceReturn

SpecConfidence == InitConfidence /\ [][NextConfidence]_vars

\* C15: calculateEnhancedConfidence returns needsReview = false exactly when
\* score >= 0.7, titleQuality >= 0.5, authorQuality >= 0.5 and (an
\* llmConfidence was supplied, 0 included, or the method is multi-pass), and
\* needsReview = true in every other case.
C15_NeedsReviewExactly ==
    call = "scored" =>
        (~out.needsReview <=>
            /\ out.score >= 70
            /\ out.titleQuality >= 50
            /\ out.authorQuality >= 50
            /\ (arg.llmConfidence.defined \/ arg.extractionMethod = "multi-pass"))

\* the same statement with "supplied" read as the code reads it (a supplied 0
\* counts as none) and the score taken before rounding
C15_NeedsReviewAsCoded ==
    call = "scored" =>
        (~out.needsReview <=>
            /\ out.finalScore >= 7 * (One \div 10)
            /\ out.titleQuality >= 50
            /\ out.authorQuality >= 50
            /\ (Truthy(arg.llmConfidence) \/ arg.extractionMethod = "multi-pass"))

\* a well-formed book, a supplied confidence of 0, single-pass extraction
C15_SuppliedZero ==
    /\ call = "scored"
    /\ arg.llmConfidence = Confidence(0)
    /\ arg.extractionMethod = "simple"
    /\ out.score >= 70
    /\ out.titleQuality >= 50
    /\ out.authorQuality >= 50

----------------------------------------------------------------------------
(* quality report: generateQualityReport over the stored rows.  A score is *)
(* a fraction num / den of exact integers, or NaN.                         *)

MaxReportLen == 2

Null == [defined |-> FALSE, value |-> 0]

ValidDate == "2024-01-01"

\* isValidDate: Date.parse gives a number
IsValidDate(date) == date = ValidDate

\* isValidISBN
IsValidISBN(isbn) == isbn = "0123456789"

\* isValidURL: new URL(url) does not throw
IsValidURL(url) == url = "https://x.y"

\* the other columns of a stored row: all empty, all well-formed, or filled
\* with malformed values
QualityFill(fill) ==
    CASE fill = "empty" ->
           [isbn |-> "", description |-> "", cover_image |-> "", publisher |-> "",
            categories |-> <<>>, average_rating |-> Null, google_books_id |-> "",
            extracted_links |-> <<>>]
      [] fill = "good" ->
           [isbn |-> "0123456789", description |-> "d", cover_image |-> "c",
            publisher |-> "p", categories |-> <<"k">>,
            average_rating |-> Confidence(4), google_books_id |-> "g",
            extracted_links |-> <<"https://x.y">>]
      [] fill = "bad" ->
           [isbn |-> "12", description |-> "d", cover_image |-> "", publisher |-> "",
            categories |-> <<>>, average_rating |-> Confidence(6),
            google_books_id |-> "", extracted_links |-> <<"https://x.y", "x">>]

QualityRow(title, author, date, status, fill) ==
    LET f == QualityFill(fill)
    IN  [title |-> title, author |-> author, episode_date |-> date,
         enhancement_status |-> status, isbn |-> f.isbn,
         description |-> f.description, cover_image |-> f.cover_image,
         publisher |-> f.publisher, categories |-> f.categories,
         average_rating |-> f.average_rating,
         google_books_id |-> f.google_books_id,
         extracted_links |-> f.extracted_links]

QualityRows ==
    {QualityRow(t, a, d, st, f) :
        t \in {<<>>, <<"a", "b">>}, a \in {<<>>, <<"a", "b">>},
        d \in {"", ValidDate, "soon"}, st \in {"enhanced", "failed"},
        f \in {"empty", "good", "bad"}}

RECURSIVE Sum(_)
\* the sum of a sequence of numbers
Sum(ns) == IF ns = <<>> THEN 0 ELSE ns[1] + Sum(Tail(ns))

\* validateBookData: one list of errors for title and author
BasicValid(book) ==
    /\ Len(Trim(book.title)) >= 2
    /\ Len(Trim(book.author)) >= 2

\* the critical issues checkBookQuality reports for one book
CriticalIssues(book) ==
    Bonus(~BasicValid(book), 1)
    + Bonus(book.episode_date # "" /\ ~IsValidDate(book.episode_date), 1)
    + Bonus(Trim(book.title) = <<>>, 1)
    + Bonus(Trim(book.author) = <<>>, 1)

TotalUrls(book) == Len(book.extracted_links)

ValidUrls(book) ==
    Cardinality({i \in DOMAIN book.extracted_links :
                    IsValidURL(book.extracted_links[i])})

NaN == [isNumber |-> FALSE, num |-> 0, den |-> 1]

Number(n, d) == [isNumber |-> TRUE, num |-> n, den |-> d]

\* Math.max(0, Math.min(100, rawScore)) on rawScore = raw / scale
Clamp(raw, scale) == Number(Max(0, Min(100 * scale, raw)), scale)

\* calculateQualityMetrics followed by calculateQualityScore; every
\* percentage is count / total * 100, which is NaN when total is 0
QualityScore(books) ==
    LET total == Len(books)
        WithISBN(b) == b.isbn # ""
        WithDescription(b) == b.description # ""
        WithCoverImage(b) == b.cover_image # ""
        WithPublisher(b) == b.publisher # ""
        WithCategories(b) == b.categories # <<>>
        Rated(b) == b.average_rating.defined
        Enhanced(b) == b.enhancement_status = "enhanced"
        Failed(b) == b.enhancement_status = "failed"
        Verified(b) == b.google_books_id # ""
        DateOk(b) == IsValidDate(b.episode_date)
        IsbnOk(b) == b.isbn = "" \/ IsValidISBN(b.isbn)
        RatingOk(b) == \/ ~b.average_rating.defined
                       \/ (b.average_rating.value >= 0 /\ b.average_rating.value <= 5)
        totalUrls == Sum([i \in DOMAIN books |-> TotalUrls(books[i])])
        validUrls == Sum([i \in DOMAIN books |-> ValidUrls(books[i])])
        urlDen == IF totalUrls = 0 THEN 1 ELSE totalUrls
        urlNum == IF totalUrls = 0 THEN 1 ELSE validUrls
        \* weights in tenths
        completeness == Len(SelectSeq(books, WithISBN)) + 2 * Len(SelectSeq(books, WithDescription))
                        + Len(SelectSeq(books, WithCoverImage)) + Len(SelectSeq(books, WithPublisher))
                        + Len(SelectSeq(books, WithCategories)) + Len(SelectSeq(books, Rated))
        accuracy == 4 * Len(SelectSeq(books, Enhanced)) + 3 * (total - Len(SelectSeq(books, Failed)))
                    + 3 * Len(SelectSeq(books, Verified))
        integrity == 3 * Len(SelectSeq(books, DateOk)) + 3 * Len(SelectSeq(books, IsbnOk))
                     + 2 * Len(SelectSeq(books, RatingOk))
        criticalIssues == Sum([i \in DOMAIN books |-> CriticalIssues(books[i])])
        criticalPenalty == Min(criticalIssues * 5, 50)
        \* rawScore * scale, with scale = 70 * total * urlDen
        scale == 70 * total * urlDen
        raw == 400 * completeness * urlDen
               + 280 * accuracy * urlDen
               + 140 * integrity * urlDen + 280 * total * urlNum
               - criticalPenalty * scale
    IN  IF total = 0 THEN NaN ELSE Clamp(raw, scale)

\* a row is stored (insertBook)
ReportInsert ==
    /\ call = "none"
    /\ Len(store) < MaxReportLen
    /\ \E row \in QualityRows : store' = Append(store, row)
    /\ UNCHANGED <<call, arg, out, again, run>>
    /\ UNCHANGED <<extractVars, genVars, postVars>>

\* generateQualityReport: getAllBooks, the metrics, the issues, the score
ReportCall ==
    /\ call = "none"
    /\ arg' = store
    /\ out' = [totalBooks |-> Len(store),
               criticalIssues |-> Sum([i \in DOMAIN store |-> CriticalIssues(store[i])]),
               qualityScore |-> QualityScore(store)]
    /\ call' = "reported"
    /\ UNCHANGED <<again, store, run>>
    /\ UNCHANGED <<extractVars, genVars, postVars>>

ReportReturn ==
    /\ call = "reported"
    /\ call' = "none"
    /\ arg' = <<>>
    /\ out' = <<>>
    /\ UNCHANGED <<again, store, run>>
    /\ UNCHANGED <<extractVars, genVars, postVars>>

InitReport == LibIdle /\ ExtractIdle /\ GenIdle /\ PostIdle

NextReport == ReportInsert \/ ReportCall \/ ReportReturn

SpecReport == InitReport /\ [][NextReport]_vars

\* C16: for every stored book set, the empty set and sets without any
\* critical issue included, generateQualityReport yields a qualityScore that
\* is a number with 0 <= qualityScore <= 100.
C16_ScoreInBounds ==
    call = "reported" =>
        /\ out.qualityScore.isNumber
        /\ 0 <= out.qualityScore.num
        /\ out.qualityScore.num <= 100 * out.qualityScore.den

\* the same bounds for every non-empty book set
C16_ScoreInBoundsNonEmpty ==
    (call = "reported" /\ out.totalBooks > 0) =>
        /\ out.qualityScore.isNumber
        /\ 0 <= out.qualityScore.num
        /\ out.qualityScore.num <= 100 * out.qualityScore.den

\* a report over a non-empty set without critical issues
C16_NoCritical ==
    call = "reported" /\ out.totalBooks > 0 /\ out.criticalIssues = 0

----------------------------------------------------------------------------
(* cleaning: DataCleaner.cleanBook on a stored row, run repeatedly         *)

MaxCleanings == 2

RECURSIVE Split(_, _)
\* String.prototype.split(sep) for a one-character separator
Split(s, sep) ==
    IF \A i \in DOMAIN s : s[i] # sep THEN <<s>>
    ELSE LET i == CHOOSE j \in DOMAIN s :
                      s[j] = sep /\ \A k \in 1..(j - 1) : s[k] # sep
         IN  <<SubSeq(s, 1, i - 1)>> \o Split(SubSeq(s, i + 1, Len(s)), sep)

RECURSIVE JoinWith(_, _)
\* Array.prototype.join(sep)
JoinWith(words, sep) ==
    IF words = <<>> THEN <<>>
    ELSE IF Len(words) = 1 THEN words[1]
    ELSE words[1] \o sep \o JoinWith(Tail(words), sep)

Articles ==
    {<<"a">>, <<"a", "n">>, <<"t", "h", "e">>,
     <<"a", "n", "d">>, <<"b", "u", "t">>, <<"o", "r">>,
     <<"f", "o", "r">>, <<"n", "o", "r">>, <<"o", "n">>,
     <<"a", "t">>, <<"t", "o">>, <<"f", "r", "o", "m">>,
     <<"b", "y">>, <<"o", "f">>, <<"i", "n">>}

\* word.charAt(0).toUpperCase() + word.slice(1)
Capitalize(word) ==
    IF word = <<>> THEN <<>> ELSE <<UpperOf(word[1])>> \o Tail(word)

\* toTitleCase
ToTitleCase(text) ==
    LET words == Split(ToLowerCase(text), " ")
        last == Len(Split(text, " "))
    IN  JoinWith([i \in DOMAIN words |->
                     IF i = 1 \/ i = last THEN Capitalize(words[i])
                     ELSE IF words[i] \in Articles THEN words[i]
                     ELSE Capitalize(words[i])], <<" ">>)

RECURSIVE CollapseSpaces(_)
\* replace(/\s+/g, ' ')
CollapseSpaces(s) ==
    IF Len(s) < 2 THEN s
    ELSE IF s[1] = " " /\ s[2] = " " THEN CollapseSpaces(Tail(s))
    ELSE <<s[1]>> \o CollapseSpaces(Tail(s))

StartsWithI(s, prefix) ==
    Len(s) >= Len(prefix) /\ ToLowerCase(SubSeq(s, 1, Len(prefix))) = prefix

EndsWithI(s, suffix) ==
    /\ Len(s) >= Len(suffix)
    /\ ToLowerCase(SubSeq(s, Len(s) - Len(suffix) + 1, Len(s))) = suffix

\* replace(/^(p1|p2)\s*/i, ''): the first alternative that matches, once
StripPrefix(s, p1, p2) ==
    IF StartsWithI(s, p1) THEN TrimStart(SubSeq(s, Len(p1) + 1, Len(s)))
    ELSE IF StartsWithI(s, p2) THEN TrimStart(SubSeq(s, Len(p2) + 1, Len(s)))
    ELSE s

\* replace(/\s*suffix\s*$/i, ''): the last occurrence with the blanks around it
StripSuffix(s, suffix) ==
    LET t == TrimEnd(s)
    IN  IF EndsWithI(t, suffix) THEN TrimEnd(SubSeq(t, 1, Len(t) - Len(suffix)))
        ELSE s

\* normalized === normalized.toUpperCase() || normalized === normalized.toLowerCase()
OneCase(s) == s = ToUpperCase(s) \/ s = ToLowerCase(s)

\* normalizeTitle
NormalizeTitle(title) ==
    IF title = <<>> THEN title
    ELSE LET trimmed == Trim(title)
             cased == IF OneCase(trimmed) THEN ToTitleCase(trimmed) ELSE trimmed
             spaced == CollapseSpaces(cased)
         IN  StripSuffix(StripPrefix(spaced, <<"b", "o", "o", "k", ":">>, <<"t", "i", "t", "l", "e", ":">>), <<"(", "b", "o", "o", "k", ")">>)

\* normalizeAuthor
NormalizeAuthor(author) ==
    IF author = <<>> THEN author
    ELSE LET trimmed == Trim(author)
             cased == IF OneCase(trimmed) THEN ToTitleCase(trimmed) ELSE trimmed
             spaced == CollapseSpaces(cased)
             bare == StripSuffix(StripPrefix(spaced, <<"b", "y", ":">>, <<"a", "u", "t", "h", "o", "r", ":">>), <<"(", "a", "u", "t", "h", "o", "r", ")">>)
             parts == Split(bare, ",")
         IN  IF Len(parts) = 2 /\ Trim(parts[1]) # <<>> /\ Trim(parts[2]) # <<>>
             THEN Trim(parts[2]) \o <<" ">> \o Trim(parts[1])
             ELSE bare

\* isbn.match(/(\d{13}|\d{10})/): the leftmost run, thirteen digits first
DigitRun(s, i, n) ==
    i + n - 1 <= Len(s) /\ \A j \in i..(i + n - 1) : IsDigit(s[j])

FirstDigitRun(s) ==
    LET starts == {i \in DOMAIN s : DigitRun(s, i, 10)}
        i == CHOOSE j \in starts : \A k \in starts : j <= k
    IN  IF starts = {} THEN <<>>
        ELSE IF DigitRun(s, i, 13) THEN SubSeq(s, i, i + 12)
        ELSE SubSeq(s, i, i + 9)

\* cleanISBN
CleanISBN(isbn) ==
    LET IsIsbnChar(c) == IsDigit(c) \/ c \in {"x", "X"}
        cleaned == ToUpperCase(SelectSeq(isbn, IsIsbnChar))
    IN  IF isbn = <<>> THEN isbn
        ELSE IF Len(cleaned) \in {10, 13} THEN cleaned
        ELSE IF FirstDigitRun(isbn) # <<>> THEN FirstDigitRun(isbn)
        ELSE isbn

\* isValidURL of the cleaner: new URL(url) accepts a scheme of letters and a
\* colon, blanks around the URL are ignored
CleanerIsValidURL(url) ==
    LET u == Trim(url)
    IN  \E i \in 2..Len(u) :
            /\ u[i] = ":"
            /\ \A j \in 1..(i - 1) : IsLetter(u[j])

\* cleanURLs
CleanURLs(urls) ==
    Dedup(SelectSeq([i \in DOMAIN urls |-> Trim(urls[i])], CleanerIsValidURL))

FixableDate == "01/02/2024 25:00"

FixedDate == "2024-01-02T00:00:00.000Z"

\* isValidDate of the cleaner
CleanerIsValidDate(date) == date \in {ValidDate, FixedDate}

\* fixDateFormat: null when no pattern gives a date
FixDateFormat(dateStr) ==
    IF CleanerIsValidDate(dateStr) THEN Defined(dateStr)
    ELSE IF dateStr = FixableDate THEN Defined(FixedDate)
    ELSE Undefined

\* the characters in the order of their code units
CharOrder ==
    <<" ", "(", ")", ",", "-", "0", "1", "2", "3", "4", "5", "6", "7", "8",
      "9", ":", "A", "B", "K", "O", "X", "Y", "a", "b", "c", "d", "e", "i",
      "k", "n", "o", "p", "s", "u", "x", "y", "z", "|">>

CharRank(c) == CHOOSE i \in DOMAIN CharOrder : CharOrder[i] = c

RECURSIVE StringLess(_, _)
\* a < b for strings
StringLess(a, b) ==
    IF b = <<>> THEN FALSE
    ELSE IF a = <<>> THEN TRUE
    ELSE IF a[1] # b[1] THEN CharRank(a[1]) < CharRank(b[1])
    ELSE StringLess(Tail(a), Tail(b))

RECURSIVE SortStrings(_)
\* Array.prototype.sort() without a comparator
SortStrings(s) ==
    IF s = <<>> THEN <<>>
    ELSE LET m == CHOOSE i \in DOMAIN s :
                      \A j \in DOMAIN s : ~StringLess(s[j], s[i])
             rest == [j \in 1..(Len(s) - 1) |-> IF j < m THEN s[j] ELSE s[j + 1]]
         IN  <<s[m]>> \o SortStrings(rest)

\* cleanCategories
CleanCategories(categories) ==
    LET NonEmpty(cat) == cat # <<>>
        trimmed == SelectSeq([i \in DOMAIN categories |-> Trim(categories[i])],
                          NonEmpty)
    IN  SortStrings(Dedup([i \in DOMAIN trimmed |-> ToTitleCase(trimmed[i])]))

CleanTitles ==
    {<<>>, <<"A", "b">>, <<" ", "a", " ", " ", "b">>, <<"B", "o", "o", "k", ":", " ", "a">>, <<"A", "b", " ", "(", "b", "o", "o", "k", ")", " ", "(", "b", "o", "o", "k", ")">>, <<"b", "o", "o", "k", ":", " ", "a", "b", " ", "(", "B", "o", "o", "k", ")">>}

CleanAuthors ==
    {<<"A", "b">>, <<"b", ",", " ", "a">>, <<"B", "y", ":", " ", "a", "b">>, <<"a", "b", " ", "(", "a", "u", "t", "h", "o", "r", ")">>}

CleanIsbns == {<<>>, <<"1", "-">> \o Rep("2", 9), <<"1", "x">>}

CleanLinkLists ==
    {<<>>, <<<<"y", ":", "x">>>>,
     <<<<" ", "y", ":", "x">>, <<"y", ":", "x">>, <<"x">>>>}

CleanDates == {"", ValidDate, FixableDate, "soon"}

CleanRatings == {Null, Confidence(6)}

CleanPageCounts == {Null, Confidence(-1)}

CleanCategoryLists == {<<>>, <<<<"A">>>>, <<<<"b">>, <<" ", "a">>, <<"A">>>>}

CleanRows ==
    [id : {1}, title : CleanTitles, author : CleanAuthors, isbn : CleanIsbns,
     extracted_links : CleanLinkLists, episode_date : CleanDates,
     average_rating : CleanRatings, page_count : CleanPageCounts,
     categories : CleanCategoryLists]

\* the record cleanBook would write: every column at its cleaned value
Cleaned(book) ==
    [book EXCEPT
        !.title = NormalizeTitle(book.title),
        !.author = NormalizeAuthor(book.author),
        !.isbn = CleanISBN(book.isbn),
        !.extracted_links = CleanURLs(book.extracted_links),
        !.episode_date =
            IF book.episode_date # "" /\ ~CleanerIsValidDate(book.episode_date)
               /\ FixDateFormat(book.episode_date).defined
            THEN FixDateFormat(book.episode_date).value
            ELSE book.episode_date,
        !.average_rating =
            IF book.average_rating.defined
               /\ (book.average_rating.value < 0 \/ book.average_rating.value > 5)
            THEN Confidence(Max(0, Min(5, book.average_rating.value)))
            ELSE book.average_rating,
        !.page_count =
            IF book.page_count.defined /\ book.page_count.value < 0
            THEN Null ELSE book.page_count,
        !.categories = CleanCategories(book.categories)]

CleanColumns ==
    {"title", "author", "isbn", "extracted_links", "episode_date",
     "average_rating", "page_count", "categories"}

\* the columns for which cleanBook pushes a change
Changes(book, cleaned) == {c \in CleanColumns : cleaned[c] # book[c]}

\* a row is stored
CleanInsert ==
    /\ call = "none"
    /\ store = <<>>
    /\ \E row \in CleanRows : store' = <<row>>
    /\ run' = [cleanings |-> 0, written |-> FALSE]
    /\ UNCHANGED <<call, arg, out, again>>
    /\ UNCHANGED <<extractVars, genVars, postVars>>

\* cleanBook(book) on the stored row; updateBook answers the updated row, or
\* null when the store reports an error
CleanBook ==
    /\ call = "none"
    /\ store # <<>>
    /\ run.cleanings < MaxCleanings
    /\ LET book == store[1]
           cleaned == Cleaned(book)
           changes == Changes(book, cleaned)
       IN  /\ arg' = book
           /\ \E updated \in BOOLEAN :
                /\ changes = {} => updated
                /\ store' = IF changes # {} /\ updated THEN <<cleaned>>
                            ELSE store
                /\ out' = [bookId |-> book.id,
                           success |-> updated,
                           changes |-> IF updated THEN changes ELSE {},
                           wrote |-> changes # {} /\ updated,
                           after |-> run.written]
                /\ run' = [cleanings |-> run.cleanings + 1,
                           written |-> run.written \/ (changes # {} /\ updated)]
    /\ call' = "cleaned"
    /\ UNCHANGED again
    /\ UNCHANGED <<extractVars, genVars, postVars>>

CleanReturn ==
    /\ call = "cleaned"
    /\ call' = "none"
    /\ arg' = <<>>
    /\ out' = <<>>
    /\ UNCHANGED <<again, store, run>>
    /\ UNCHANGED <<extractVars, genVars, postVars>>

InitClean == LibIdle /\ ExtractIdle /\ GenIdle /\ PostIdle

NextClean == CleanInsert \/ CleanBook \/ CleanReturn

SpecClean == InitClean /\ [][NextClean]_vars

\* C17: cleanBook is idempotent: after one successful cleanBook has written
\* its changes, running cleanBook again on the updated record reports zero
\* changes and writes nothing to the store.
C17_CleanIdempotent ==
    (call = "cleaned" /\ out.after) => (out.changes = {} /\ ~out.wrote)

\* the same statement for every column but title and author
C17_OtherColumnsIdempotent ==
    (call = "cleaned" /\ out.after) => out.changes \subseteq {"title", "author"}

\* a second cleanBook on a row that a first one has written
C17_SecondCleaning == call = "cleaned" /\ out.after /\ out.success

----------------------------------------------------------------------------
(* enhancement: GoogleBooksClient.enhanceBook, one lookup after the other  *)

MaxItems == 2

RECURSIVE LevenshteinDistance(_, _)
\* levenshteinDistance
LevenshteinDistance(str1, str2) ==
    IF str1 = <<>> THEN Len(str2)
    ELSE IF str2 = <<>> THEN Len(str1)
    ELSE IF str1[Len(str1)] = str2[Len(str2)]
         THEN LevenshteinDistance(SubSeq(str1, 1, Len(str1) - 1),
                                  SubSeq(str2, 1, Len(str2) - 1))
    ELSE 1 + Min(LevenshteinDistance(SubSeq(str1, 1, Len(str1) - 1),
                                     SubSeq(str2, 1, Len(str2) - 1)),
                 Min(LevenshteinDistance(SubSeq(str1, 1, Len(str1) - 1), str2),
                     LevenshteinDistance(str1, SubSeq(str2, 1, Len(str2) - 1))))

\* calculateStringSimilarity, as the fraction num / den
CalculateStringSimilarity(str1, str2) ==
    LET longer == IF Len(str1) > Len(str2) THEN str1 ELSE str2
        shorter == IF Len(str1) > Len(str2) THEN str2 ELSE str1
    IN  IF Len(longer) = 0 THEN [num |-> 1, den |-> 1]
        ELSE [num |-> Len(longer) - LevenshteinDistance(longer, shorter),
              den |-> Len(longer)]

\* a >= b for fractions with positive denominators
FractionAtLeast(a, b) == a.num * b.den >= b.num * a.den

NoneFound == [found |-> FALSE, threw |-> FALSE, item |-> 0]

\* the author score of one item: the best similarity over its authors, 0
\* without authors, minus infinity for an empty list
AuthorScore(book, item) ==
    LET sims == {CalculateStringSimilarity(ToLowerCase(book.author),
                                           ToLowerCase(item.authors.value[i])) :
                    i \in DOMAIN item.authors.value}
    IN  IF ~item.authors.defined THEN [finite |-> TRUE, num |-> 0, den |-> 1]
        ELSE IF sims = {} THEN [finite |-> FALSE, num |-> 0, den |-> 1]
        ELSE LET best == CHOOSE x \in sims : \A y \in sims : FractionAtLeast(x, y)
             IN  [finite |-> TRUE, num |-> best.num, den |-> best.den]

\* titleScore * 0.6 + authorScore * 0.4 > 0.6
GoodEnough(book, item) ==
    LET t == CalculateStringSimilarity(ToLowerCase(book.title),
                                       ToLowerCase(item.title.value))
        a == AuthorScore(book, item)
    IN  a.finite /\ 6 * t.num * a.den + 4 * a.num * t.den > 6 * t.den * a.den

\* score(x) >= score(y), both finite or minus infinity
ScoreAtLeast(book, x, y) ==
    LET tx == CalculateStringSimilarity(ToLowerCase(book.title),
                                        ToLowerCase(x.title.value))
        ty == CalculateStringSimilarity(ToLowerCase(book.title),
                                        ToLowerCase(y.title.value))
        ax == AuthorScore(book, x)
        ay == AuthorScore(book, y)
    IN  \/ ~ay.finite
        \/ /\ ax.finite
           /\ (6 * tx.num * ax.den + 4 * ax.num * tx.den) * (ty.den * ay.den)
              >= (6 * ty.num * ay.den + 4 * ay.num * ty.den) * (tx.den * ax.den)

\* findBestMatch: throws on an item without volumeInfo or without a title
FindBestMatch(book, items) ==
    IF \E i \in DOMAIN items : ~items[i].hasVolumeInfo \/ ~items[i].title.defined
    THEN [found |-> FALSE, threw |-> TRUE, item |-> 0]
    ELSE LET i == CHOOSE j \in DOMAIN items :
                      /\ \A k \in DOMAIN items : ScoreAtLeast(book, items[j], items[k])
                      /\ \A k \in 1..(j - 1) : ~ScoreAtLeast(book, items[k], items[j])
         IN  IF GoodEnough(book, items[i])
             THEN [found |-> TRUE, threw |-> FALSE, item |-> i]
             ELSE NoneFound

EnhanceBooks ==
    [title : {<<"a", "b">>, <<"A", "b", "c">>}, author : {<<"x">>},
     isbn : {"", "0123456789"},
     enhancementStatus : {"undefined", "pending", "enhanced", "not_found", "failed"},
     googleBooksId : {""}]

GoogleItems ==
    {[id |-> "g1", hasVolumeInfo |-> TRUE, title |-> Defined(<<"A", "B">>),
      authors |-> Defined(<<<<"y">>, <<"X">>>>)],
     [id |-> "g2", hasVolumeInfo |-> TRUE, title |-> Defined(<<"z", "z", "z">>),
      authors |-> Undefined],
     [id |-> "g3", hasVolumeInfo |-> TRUE, title |-> Defined(<<"a", "b", "c">>),
      authors |-> Defined(<<>>)],
     [id |-> "g4", hasVolumeInfo |-> TRUE, title |-> Undefined,
      authors |-> Undefined],
     [id |-> "g5", hasVolumeInfo |-> FALSE, title |-> Undefined,
      authors |-> Undefined]}

ItemLists(n) == UNION {[1..k -> GoogleItems] : k \in 0..n}

\* what a search resolves to: a rejection (network error or a status that is
\* not ok), a response without items, or a response with items
SearchOutcomes(n) ==
    {[threw |-> TRUE, items |-> Undefined]}
    \cup {[threw |-> FALSE, items |-> Undefined]}
    \cup {[threw |-> FALSE, items |-> Defined(l)] : l \in ItemLists(n)}

NoOutcome == [threw |-> FALSE, items |-> Undefined]

\* a mutant of NotFound: the spread book keeps its previous status
NotFoundKeepsStatus(book, message) == [book |-> book, threw |-> FALSE]

\* { ...book, enhancementStatus: 'not_found', ... }
NotFound(book, message) ==
    [book |-> [book EXCEPT !.enhancementStatus = "not_found"], threw |-> FALSE]

\* the catch block: { ...book, enhancementStatus: 'failed', ... }
Failed(book) ==
    [book |-> [book EXCEPT !.enhancementStatus = "failed"], threw |-> FALSE]

\* enhanceBookWithMetadata inside the try block: a TypeError on an item
\* without volumeInfo lands in the catch block
EnhanceBookWithMetadata(book, item) ==
    IF ~item.hasVolumeInfo THEN Failed(book)
    ELSE [book |-> [book EXCEPT !.enhancementStatus = "enhanced",
                                !.googleBooksId = item.id],
          threw |-> FALSE]

\* enhanceBook(book) is called
EnhanceStart ==
    /\ call = "none"
    /\ \E book \in EnhanceBooks :
         /\ arg' = book
         /\ call' = IF book.isbn # "" THEN "searchByISBN" ELSE "searchByTitleAndAuthor"
    /\ run' = [isbn |-> NoOutcome, title |-> NoOutcome, path |-> "none"]
    /\ UNCHANGED <<out, again, store>>
    /\ UNCHANGED <<extractVars, genVars, postVars>>

\* searchByISBN settles
IsbnSearchSettled ==
    /\ call = "searchByISBN"
    /\ \E o \in SearchOutcomes(1) :
         /\ IF o.threw
            THEN /\ out' = Failed(arg)
                 /\ call' = "returned"
                 /\ run' = [run EXCEPT !.isbn = o, !.path = "isbn threw"]
            ELSE IF OrElse(o.items, <<>>) # <<>>
            THEN /\ out' = EnhanceBookWithMetadata(arg, o.items.value[1])
                 /\ call' = "returned"
                 /\ run' = [run EXCEPT !.isbn = o, !.path = "isbn match"]
            ELSE /\ out' = out
                 /\ call' = "searchByTitleAndAuthor"
                 /\ run' = [run EXCEPT !.isbn = o]
    /\ UNCHANGED <<arg, again, store>>
    /\ UNCHANGED <<extractVars, genVars, postVars>>

\* searchByTitleAndAuthor settles, findBestMatch runs on its items
TitleSearchSettled ==
    /\ call = "searchByTitleAndAuthor"
    /\ \E o \in SearchOutcomes(MaxItems) :
         LET items == OrElse(o.items, <<>>)
             best == FindBestMatch(arg, items)
         IN  /\ out' = IF o.threw THEN Failed(arg)
                       ELSE IF items = <<>>
                       THEN NotFound(arg, "No matching books found")
                       ELSE IF best.threw THEN Failed(arg)
                       ELSE IF best.found
                       THEN EnhanceBookWithMetadata(arg, items[best.item])
                       ELSE NotFound(arg, "No suitable match found")
             /\ run' = [run EXCEPT
                          !.title = o,
                          !.path = IF o.threw THEN "title threw"
                                   ELSE IF items = <<>> THEN "no results"
                                   ELSE IF best.threw THEN "match threw"
                                   ELSE IF best.found THEN "title match"
                                   ELSE "no similar match"]
    /\ call' = "returned"
    /\ UNCHANGED <<arg, again, store>>
    /\ UNCHANGED <<extractVars, genVars, postVars>>

\* the caller takes the result
EnhanceReturn ==
    /\ call = "returned"
    /\ call' = "none"
    /\ arg' = <<>>
    /\ out' = <<>>
    /\ run' = <<>>
    /\ UNCHANGED <<again, store>>
    /\ UNCHANGED <<extractVars, genVars, postVars>>

InitEnhance == LibIdle /\ ExtractIdle /\ GenIdle /\ PostIdle

NextEnhance ==
    EnhanceStart \/ IsbnSearchSettled \/ TitleSearchSettled \/ EnhanceReturn

SpecEnhance == InitEnhance /\ [][NextEnhance]_vars

\* C18: after any enhancement attempt, whatever the lookup outcome and
\* whatever the book's previous status, the returned book's enhancementStatus
\* is one of enhanced, not_found, failed, never pending, and enhanceBook does
\* not throw.
C18_StatusSettled ==
    call = "returned" =>
        /\ ~out.threw
        /\ out.book.enhancementStatus \in {"enhanced", "not_found", "failed"}

\* a book that was pending comes back after a lookup without a similar match
C18_Witness ==
    /\ call = "returned"
    /\ arg.enhancementStatus = "pending"
    /\ run.path = "no similar match"
    /\ out.book.enhancementStatus = "not_found"

----------------------------------------------------------------------------
(* context preservation in POST /api/extract-books                         *)

\* C19: with context preservation enabled, after an episode's multi-pass
\* extraction completes with an initial pass that returned a non-empty
\* contextPreserved string, that string is stored in the context cache under
\* the episode's id (from where getPreservedContext supplies it to a later
\* extraction call).
C19_InitialContextCached ==
    (phase = "batch" /\ request.preserveContext) =>
        \A k \in DOMAIN tasks :
            (tasks[k].pc = "fulfilled" /\ tasks[k].initial # "") =>
                contextCache[request.episodes[batch[k]]] = tasks[k].initial

\* a multi-pass run with a non-empty initial context has settled a task of a
\* request that preserves context
C19_MultiPassSettled ==
    /\ phase = "batch"
    /\ request.preserveContext
    /\ \E k \in DOMAIN tasks : tasks[k].pc = "fulfilled" /\ tasks[k].initial # ""

----------------------------------------------------------------------------
(* the choice between the single-pass and the multi-pass path              *)

\* C20, as stated: for a description that matches no signal pattern,
\* multi-pass extraction is chosen if and only if the description is at least
\* 800 characters long, and the single-pass path below that.
C20_ComplexFrom800 ==
    (entry = "episode" /\ ~desc.signal /\ lastCall # "none") =>
        (desc.len >= 800 <=> lastCall # "simple")

\* C20, amended: for a description that matches no signal pattern,
\* multi-pass extraction is chosen if and only if the description is longer
\* than 800 characters; a description of exactly 800 characters takes the
\* single-pass path.
C20_ComplexAbove800 ==
    (entry = "episode" /\ ~desc.signal /\ lastCall # "none") =>
        (desc.len > 800 <=> lastCall # "simple")

\* C20 witness: a description of exactly 800 characters without a signal was
\* extracted by the single-pass call
C20_Witness ==
    /\ entry = "episode"
    /\ ~desc.signal
    /\ desc.len = 800
    /\ lastCall = "simple"
    /\ pc = "done"

----------------------------------------------------------------------------
(* parseJsonResponse on the text of a response.  A text is a sequence of   *)
(* pieces: "FENCE" for the three backquotes of a code fence, the word      *)
(* "json", a blank, "{", "}" and "x".                                      *)

MaxTextLen == 5

TextPieces == {"FENCE", "json", " ", "{", "}", "x"}

\* JSON.parse on a text of pieces: blanks around a value are skipped; the
\* values of this alphabet are the empty object, written with or without
\* blanks between its braces; everything else is a SyntaxError
JsonParse(text) ==
    LET t == Trim(text)
        inner == SubSeq(t, 2, Len(t) - 1)
    IN  IF /\ Len(t) >= 2
           /\ t[1] = "{"
           /\ t[Len(t)] = "}"
           /\ \A i \in DOMAIN inner : inner[i] = " "
        THEN [threw |-> FALSE, value |-> "{}"]
        ELSE [threw |-> TRUE, value |-> "SyntaxError"]

\* replace(/^FENCEjson\s*/, "") or replace(/^FENCE\s*/, ""), the first n
\* pieces being the match without its blanks
StripOpeningFence(text, n) == TrimStart(SubSeq(text, n + 1, Len(text)))

\* replace(/\s*FENCE$/, "")
StripClosingFence(text) ==
    IF text # <<>> /\ text[Len(text)] = "FENCE"
    THEN TrimEnd(SubSeq(text, 1, Len(text) - 1))
    ELSE text

\* the text handed to JSON.parse
CleanResponse(resp) ==
    LET trimmed == Trim(resp)
    IN  IF Len(trimmed) >= 2 /\ trimmed[1] = "FENCE" /\ trimmed[2] = "json"
        THEN StripClosingFence(StripOpeningFence(trimmed, 2))
        ELSE IF Len(trimmed) >= 1 /\ trimmed[1] = "FENCE"
        THEN StripClosingFence(StripOpeningFence(trimmed, 1))
        ELSE trimmed

\* a mutant of RawFallback: the cleaned text is reported as the raw response
RawFallbackCleaned(resp) ==
    [threw |-> FALSE, parsed |-> FALSE, value |-> "",
     books |-> <<>>, rawResponse |-> Defined(CleanResponse(resp.value))]

\* the catch block: { books: [], rawResponse: response }
RawFallback(resp) ==
    [threw |-> FALSE, parsed |-> FALSE, value |-> "",
     books |-> <<>>, rawResponse |-> resp]

\* parseJsonResponse(response); response.trim() on a value that is not a
\* string is a TypeError inside the try block
ParseJsonText(resp) ==
    IF ~resp.defined THEN RawFallback(resp)
    ELSE LET parsed == JsonParse(CleanResponse(resp.value))
         IN  IF parsed.threw THEN RawFallback(resp)
             ELSE [threw |-> FALSE, parsed |-> TRUE, value |-> parsed.value,
                   books |-> <<>>, rawResponse |-> Undefined]

\* the text of the response grows by a piece
ParsePush ==
    /\ call \in {"none", "text"}
    /\ Len(arg) < MaxTextLen
    /\ \E piece \in TextPieces : arg' = Append(arg, piece)
    /\ call' = "text"
    /\ UNCHANGED <<out, again, store, run>>
    /\ UNCHANGED <<extractVars, genVars, postVars>>

\* parseJsonResponse is called on the text, or on a value that is no string
ParseCall ==
    /\ call \in {"none", "text"}
    /\ \E isString \in BOOLEAN :
         LET resp == IF isString THEN Defined(arg) ELSE Undefined
         IN  /\ run' = resp
             /\ out' = ParseJsonText(resp)
    /\ call' = "parsed"
    /\ UNCHANGED <<arg, again, store>>
    /\ UNCHANGED <<extractVars, genVars, postVars>>

ParseReturn ==
    /\ call = "parsed"
    /\ call' = "none"
    /\ arg' = <<>>
    /\ out' = <<>>
    /\ run' = <<>>
    /\ UNCHANGED <<again, store>>
    /\ UNCHANGED <<extractVars, genVars, postVars>>

InitParse == LibIdle /\ ExtractIdle /\ GenIdle /\ PostIdle

NextParse == ParsePush \/ ParseCall \/ ParseReturn

SpecParse == InitParse /\ [][NextParse]_vars

\* the fence pieces at the two ends of a text, and the blanks next to them,
\* taken off by position
Unfenced(text) ==
    LET t == Trim(text)
        opening == IF t # <<>> /\ t[1] = "FENCE"
                   THEN IF Len(t) >= 2 /\ t[2] = "json" THEN 2 ELSE 1
                   ELSE 0
        body == TrimStart(SubSeq(t, opening + 1, Len(t)))
    IN  IF opening > 0 /\ body # <<>> /\ body[Len(body)] = "FENCE"
        THEN TrimEnd(SubSeq(body, 1, Len(body) - 1))
        ELSE body

\* the texts that are JSON: an opening brace, blanks, a closing brace
IsJson(text) ==
    \E n \in 0..Len(text) : text = <<"{">> \o [i \in 1..n |-> " "] \o <<"}">>

\* C21: parseJsonResponse never throws: for every response text it returns a
\* value, and when the text, after stripping a surrounding Markdown code
\* fence, is not valid JSON the value is { books: [], rawResponse: <the
\* original text> }.
C21_ParseNeverThrows ==
    call = "parsed" =>
        /\ ~out.threw
        /\ (run.defined /\ ~IsJson(Trim(Unfenced(run.value)))) =>
              /\ ~out.parsed
              /\ out.books = <<>>
              /\ out.rawResponse = run
        /\ ~run.defined =>
              /\ ~out.parsed
              /\ out.books = <<>>
              /\ out.rawResponse = run

\* C21 witness: a fenced text that is not JSON and has blanks around the
\* fence came back as the raw response, blanks and fence included
C21_Witness ==
    /\ call = "parsed"
    /\ run.defined
    /\ Len(run.value) >= 4
    /\ run.value[1] = " "
    /\ run.value[2] = "FENCE"
    /\ run.value[Len(run.value)] = "FENCE"
    /\ ~out.parsed
    /\ out.rawResponse = run

----------------------------------------------------------------------------
(* lib/data-cleaning.ts: DataCleaner.applyAutomaticFixes on the books      *)
(* table.  The procedure is the only writer of the table while it runs;    *)
(* an update may fail.                                                     *)

\* most rows in the table
MaxFixLen == 2

FixTitles == {<<"a">>, <<" ", "a", " ">>, <<" ">>, <<>>}

FixAuthors == {<<"c">>, <<"c", " ">>}

\* extracted_links of a row: null, or an array
FixLinks == {Undefined, Defined(<<"x">>), Defined(<<"x", "y", "x">>)}

\* the row the table gets with the next id; the full rule set would rewrite
\* its isbn
FixRows(id) ==
    {[id |-> id, title |-> t, author |-> a, extracted_links |-> l,
      isbn |-> <<"1", "-", "2">>] :
        t \in FixTitles, a \in FixAuthors, l \in FixLinks}

\* a mutant of TrimmedField: only the leading whitespace is removed
TrimmedFieldStart(value) ==
    IF value # <<>> /\ value # TrimStart(value)
    THEN Defined(TrimStart(value)) ELSE Undefined

\* the entry of updateData for title or author: written when the value is
\* not empty and differs from its trim()
TrimmedField(value) ==
    IF value # <<>> /\ value # Trim(value) THEN Defined(Trim(value))
    ELSE Undefined

\* the entry of updateData for extracted_links: written when the value is
\* an array that has duplicates
UniqueLinks(links) ==
    IF links.defined /\ Len(Dedup(links.value)) # Len(links.value)
    THEN Defined(Dedup(links.value)) ELSE Undefined

\* updateData of applyLowRiskFixes
LowRiskUpdateData(book) ==
    [title |-> TrimmedField(book.title),
     author |-> TrimmedField(book.author),
     extracted_links |-> UniqueLinks(book.extracted_links)]

\* changes of applyLowRiskFixes
LowRiskChanges(updateData) ==
    (IF updateData.title.defined THEN <<"Trimmed title whitespace">> ELSE <<>>)
    \o (IF updateData.author.defined THEN <<"Trimmed author whitespace">>
        ELSE <<>>)
    \o (IF updateData.extracted_links.defined THEN <<"Removed duplicate URLs">>
        ELSE <<>>)

\* BookDatabase.updateBook(id, updateData): the keys of updateData are set
UpdateFields(rows, id, updateData) ==
    [k \in DOMAIN rows |->
        IF rows[k].id = id
        THEN [rows[k] EXCEPT
                !.title = IF updateData.title.defined
                          THEN updateData.title.value ELSE @,
                !.author = IF updateData.author.defined
                           THEN updateData.author.value ELSE @,
                !.extracted_links = IF updateData.extracted_links.defined
                                    THEN Defined(updateData.extracted_links.value)
                                    ELSE @]
        ELSE rows[k]]

\* a row is inserted into the table before the procedure runs
FixInsert ==
    /\ call = "none"
    /\ Len(store) < MaxFixLen
    /\ \E r \in FixRows(Len(store) + 1) : store' = Append(store, r)
    /\ UNCHANGED <<call, arg, out, again, run>>
    /\ UNCHANGED <<extractVars, genVars, postVars>>

\* applyAutomaticFixes: getAllBooks answered
FixStart ==
    /\ call = "none"
    /\ arg' = store
    /\ run' = [i |-> 1]
    /\ out' = <<>>
    /\ call' = IF store = <<>> THEN "fixed" ELSE "fixing"
    /\ UNCHANGED <<again, store>>
    /\ UNCHANGED <<extractVars, genVars, postVars>>

\* applyLowRiskFixes(book) for the next book of the list, its update, if
\* one is sent, succeeding or failing
FixBook ==
    /\ call = "fixing"
    /\ LET book == arg[run.i]
           updateData == LowRiskUpdateData(book)
           changes == LowRiskChanges(updateData)
       IN  \E updated \in BOOLEAN :
             /\ (changes = <<>>) => updated
             /\ store' = IF changes # <<>> /\ updated
                         THEN UpdateFields(store, book.id, updateData)
                         ELSE store
             /\ out' = IF changes # <<>>
                       THEN Append(out, [bookId |-> book.id,
                                         success |-> updated,
                                         changes |-> changes])
                       ELSE out
    /\ run' = [i |-> run.i + 1]
    /\ call' = IF run.i < Len(arg) THEN "fixing" ELSE "fixed"
    /\ UNCHANGED <<arg, again>>
    /\ UNCHANGED <<extractVars, genVars, postVars>>

FixReturn ==
    /\ call = "fixed"
    /\ call' = "none"
    /\ arg' = <<>>
    /\ out' = <<>>
    /\ run' = <<>>
    /\ UNCHANGED <<again, store>>
    /\ UNCHANGED <<extractVars, genVars, postVars>>

InitFix == LibIdle /\ ExtractIdle /\ GenIdle /\ PostIdle

NextFix == FixInsert \/ FixStart \/ FixBook \/ FixReturn

SpecFix == InitFix /\ [][NextFix]_vars

\* s without blanks at its two ends, by position
Stripped(s, t) ==
    \E i \in 1..(Len(s) + 1), j \in 0..Len(s) :
        /\ t = SubSeq(s, i, j)
        /\ \A k \in 1..(i - 1) : s[k] = " "
        /\ \A k \in (j + 1)..Len(s) : s[k] = " "
        /\ t # <<>> => t[1] # " " /\ t[Len(t)] # " "

\* t is s without the later occurrences of its elements, in s's order
FirstOccurrences(s, t) ==
    LET first == {i \in DOMAIN s : \A j \in 1..(i - 1) : s[j] # s[i]}
    IN  /\ Len(t) = Cardinality(first)
        /\ \A k \in DOMAIN t :
              \E i \in first :
                  /\ t[k] = s[i]
                  /\ Cardinality({j \in first : j < i}) = k - 1

\* C22: applyAutomaticFixes only ever writes the fields title, author and
\* extracted_links of a stored book: a written title or author is the stored
\* value trimmed, a written link list is the stored list without its later
\* duplicates, in the original order; no other field is changed and no
\* record is deleted.
C22_LowRiskFrame ==
    call \in {"fixing", "fixed"} =>
        /\ Len(store) = Len(arg)
        /\ \A k \in DOMAIN arg :
              /\ store[k].id = arg[k].id
              /\ store[k].isbn = arg[k].isbn
              /\ \/ store[k].title = arg[k].title
                 \/ Stripped(arg[k].title, store[k].title)
              /\ \/ store[k].author = arg[k].author
                 \/ Stripped(arg[k].author, store[k].author)
              /\ \/ store[k].extracted_links = arg[k].extracted_links
                 \/ /\ arg[k].extracted_links.defined
                    /\ store[k].extracted_links.defined
                    /\ FirstOccurrences(arg[k].extracted_links.value,
                                        store[k].extracted_links.value)

\* C22 witness: the run is over and wrote a trimmed title, a trimmed author
\* and a list of links without its duplicate to one row
C22_Witness ==
    /\ call = "fixed"
    /\ \E k \in DOMAIN arg :
          /\ arg[k].title = <<" ", "a", " ">>
          /\ store[k].title = <<"a">>
          /\ arg[k].author = <<"c", " ">>
          /\ store[k].author = <<"c">>
          /\ arg[k].extracted_links = Defined(<<"x", "y", "x">>)
          /\ store[k].extracted_links = Defined(<<"x", "y">>)

----------------------------------------------------------------------------
(* responses that are not JSON in the refinement and the validation stage  *)
(* (SpecExtract)                                                           *)

\* C23: when the response of the refinement or of the validation stage
\* cannot be parsed as JSON, the stage's books equal its input books, and
\* the books of the earlier stage are the final books when the stage was the
\* last one to run.
C23_MalformedDegrades ==
    (lastKind = "garbage" /\ lastCall \in {"refinement", "validation"}) =>
        /\ Len(passes) >= 2
        /\ passes[Len(passes)].passType = lastCall
        /\ passes[Len(passes)].books = passes[Len(passes) - 1].books
        /\ pc = "done" => completed.finalBooks = passes[Len(passes) - 1].books

----------------------------------------------------------------------------
(* DataCleaner.mergeDuplicateBooks when an update of the table can fail:   *)
(* BookDatabase.updateBook logs the error and returns null.                *)

\* the update of the group's first row failed and returned null: the value
\* is not looked at, and the first delete is sent; out lists the groups
\* whose update failed
DbMergeUpdateFails ==
    /\ call = "dbmerge"
    /\ run.i = 1
    /\ out' = Append(out, run.g)
    /\ run' = [run EXCEPT !.i = 2]
    /\ UNCHANGED <<call, arg, again, store>>
    /\ UNCHANGED <<extractVars, genVars, postVars>>

NextStoreMergeFaulty == NextStoreMerge \/ DbMergeUpdateFails

SpecStoreMergeFaulty == InitStoreMerge /\ [][NextStoreMergeFaulty]_vars

\* C24: the duplicate records of a group are deleted only after the update
\* that folds their links, context and date into the surviving record has
\* succeeded; if that update fails no record of the group is deleted.
C24_NoDeleteAfterFailedUpdate ==
    call \in {"dbmerge", "dbmerged"} =>
        \A n \in DOMAIN out :
            LET group == run.groups[out[n]]
            IN  \A m \in DOMAIN group : group[m].id \in StoredIds

----------------------------------------------------------------------------
(* generateContent with the time of every fetch on record: admissions      *)
(* holds the times of the fetches of the last window, retries included.    *)

\* a step of caller c that ends in "fetching" has sent a fetch
RecordFetch(c) ==
    admissions' = IF gpc'[c] = "fetching" THEN Append(admissions, now)
                  ELSE admissions

GenCallSent(c) == GenCallSteps(c) /\ RecordFetch(c)

PollSent(c) == PollSteps(c) /\ RecordFetch(c)

RetrySent(c) == RetrySteps(c) /\ RecordFetch(c)

NextGenSent ==
    \/ \E c \in GenCallers : GenCallSent(c)
    \/ \E c \in GenCallers : PollSent(c)
    \/ \E c \in GenCallers : Respond(c)
    \/ \E c \in GenCallers : RetrySent(c)
    \/ Tick

SpecGenSent == InitGen /\ [][NextGenSent]_vars

\* C25: the number of HTTP requests sent to the provider within any time
\* interval of length windowMs never exceeds the rate limiter's limit, the
\* retries after 429 errors counted.
C25_FetchesWithinLimit ==
    \A t \in 0..MaxTime :
        Cardinality({i \in DOMAIN admissions :
                        t <= admissions[i] /\ admissions[i] < t + WindowTicks})
            <= Limit

----------------------------------------------------------------------------
(* POST /api/process-data.  The feed is a fixed list of episodes, each     *)
(* with its guid; store is the guid column of the episodes table, in the   *)
(* order of insertion; again is, for every episode of the feed, how its    *)
(* last extraction ended.  The episodes of a request are handled one after *)
(* another, batch by batch; the delay between two batches changes nothing. *)

\* episodes in the feed
NumFeed == 2

\* requests served one after another
MaxRuns == 2

Feed == 1..NumFeed

\* how extractBooksFromEpisode can end: it throws, or it returns no book or
\* one book
ProcessExtractions == {"threw", "nobooks", "book"}

\* what becomes of an extracted book: it fails validation, it is inserted,
\* or insertBook returns null
ProcessBookFates == {"invalid", "stored", "notstored"}

NoSummary ==
    [episodesChecked |-> 0, episodesProcessed |-> 0, episodesSkipped |-> 0,
     booksExtracted |-> 0, booksStored |-> 0, errors |-> <<>>,
     skipped |-> <<>>]

\* runs served so far
RunsSoFar == IF run = <<>> THEN 0 ELSE run.n

\* EpisodeDatabase.getEpisodeByGuid: the row, or null when there is none or
\* the query failed
GetEpisodeByGuid(rows, guid, queryOk) ==
    queryOk /\ \E k \in DOMAIN rows : rows[k] = guid

\* EpisodeDatabase.upsertEpisode: a row per guid
UpsertEpisode(rows, guid) ==
    IF \E k \in DOMAIN rows : rows[k] = guid THEN rows ELSE Append(rows, guid)

\* the request arrives: options are read, the feed is fetched and sliced
ProcessStart ==
    /\ call = "none"
    /\ RunsSoFar < MaxRuns
    /\ \E skipExisting \in BOOLEAN, startFrom \in 0..(NumFeed - 1) :
         /\ arg' = [skipExisting |-> skipExisting, startFrom |-> startFrom]
         /\ run' = [n |-> RunsSoFar + 1, i |-> startFrom + 1]
         /\ out' = [NoSummary EXCEPT !.episodesChecked = NumFeed - startFrom]
    /\ again' = IF again = <<>> THEN [e \in Feed |-> "never"] ELSE again
    /\ call' = "processing"
    /\ UNCHANGED store
    /\ UNCHANGED <<extractVars, genVars, postVars>>

\* the body of the loop for the next episode, and the response after the
\* last one
ProcessEpisode ==
    /\ call = "processing"
    /\ LET guid == run.i
       IN  \E queryOk \in BOOLEAN, upsertOk \in BOOLEAN,
              extraction \in ProcessExtractions, bookFate \in ProcessBookFates :
             IF arg.skipExisting /\ GetEpisodeByGuid(store, guid, queryOk) THEN
                 /\ out' = [out EXCEPT !.episodesSkipped = @ + 1,
                                       !.skipped = Append(@, guid)]
                 /\ UNCHANGED <<store, again>>
             ELSE IF ~upsertOk THEN
                 /\ out' = [out EXCEPT !.errors = Append(@, guid)]
                 /\ UNCHANGED <<store, again>>
             ELSE
                 /\ store' = UpsertEpisode(store, guid)
                 /\ IF extraction = "threw" THEN
                        /\ again' = [again EXCEPT ![guid] = "failed"]
                        /\ out' = [out EXCEPT !.errors = Append(@, guid)]
                    ELSE
                        /\ again' = [again EXCEPT ![guid] = "extracted"]
                        /\ out' = [out EXCEPT
                              !.episodesProcessed = @ + 1,
                              !.booksExtracted =
                                  IF extraction = "book" THEN @ + 1 ELSE @,
                              !.booksStored =
                                  IF extraction = "book" /\ bookFate = "stored"
                                  THEN @ + 1 ELSE @,
                              !.errors =
                                  IF extraction = "book" /\ bookFate # "stored"
                                  THEN Append(@, guid) ELSE @]
    /\ run' = [run EXCEPT !.i = @ + 1]
    /\ call' = IF run.i < NumFeed THEN "processing" ELSE "processed"
    /\ UNCHANGED arg
    /\ UNCHANGED <<extractVars, genVars, postVars>>

\* the response is out; the tables stay as they are
ProcessReturn ==
    /\ call = "processed"
    /\ call' = "none"
    /\ arg' = <<>>
    /\ out' = <<>>
    /\ UNCHANGED <<again, store, run>>
    /\ UNCHANGED <<extractVars, genVars, postVars>>

InitProcess == LibIdle /\ ExtractIdle /\ GenIdle /\ PostIdle

NextProcess == ProcessStart \/ ProcessEpisode \/ ProcessReturn

SpecProcess == InitProcess /\ [][NextProcess]_vars

\* C26: with skipExisting enabled, an episode whose book extraction failed
\* is not treated as already processed: a later run does not skip it.
C26_FailedEpisodeNotSkipped ==
    (call \in {"processing", "processed"} /\ arg.skipExisting) =>
        \A k \in DOMAIN out.skipped : again[out.skipped[k]] # "failed"

----------------------------------------------------------------------------
(* termination of POST /api/extract-books.  The event loop runs every      *)
(* callback that is ready: a settled promise is collected, a timer that    *)
(* was set fires.  The loop may go round any number of times: iterations   *)
(* stops counting at MaxIterations, and i, which a negative batchSize      *)
(* makes smaller every time, stops at -episodes.length, from where on      *)
(* every slice is the same.                                                *)

\* the 1000 ms between two batches are over: i += batchSize
DelayOverOn ==
    /\ phase = "delay"
    /\ Continue(request,
                Max(idx + request.batchSize, 0 - Len(request.episodes)),
                allBooks, errors, processedEpisodes, stats, fate,
                Min(iterations, MaxIterations - 1))
    /\ UNCHANGED <<request, cache, contextCache>>
    /\ UNCHANGED <<extractVars, genVars, libVars>>

NextPostLive ==
    \/ Request
    \/ BadRequest
    \/ \E k \in 1..NumEpisodes : TaskLookup(k)
    \/ \E k \in 1..NumEpisodes : TaskExtract(k)
    \/ BatchSettled
    \/ DelayOverOn
    \/ Return

SpecPostLive == InitPost /\ [][NextPostLive]_vars /\ WF_vars(NextPostLive)

\* C27: POST /api/extract-books terminates for every request body that
\* carries an episodes array: for any batchSize, 0 and negative numbers
\* included, the batch loop hands each episode to exactly one extraction
\* task and then responds.
C27_PostTerminates ==
    (phase = "batch" /\ request.hasEpisodes) ~> (phase = "responded")

----------------------------------------------------------------------------
(* concurrency of the extraction tasks in POST /api/extract-books          *)
(* (SpecPost)                                                              *)

\* the tasks of the running batch that have not settled
InFlight ==
    {k \in DOMAIN tasks : tasks[k].pc \notin {"fulfilled", "rejected"}}

\* C28: at most batchSize episode-extraction tasks are in flight at any
\* time: no task of the next batch starts before every task of the batch has
\* settled and the delay between the batches is over, and no delay follows
\* the last batch.
C28_AtMostBatchSizeInFlight ==
    /\ phase \in {"batch", "delay"} =>
          Cardinality(InFlight) <= request.batchSize
    /\ phase = "delay" =>
          /\ InFlight = {}
          /\ Slice(Len(request.episodes), idx + request.batchSize,
                   idx + 2 * request.batchSize) # <<>>

----------------------------------------------------------------------------
(* A caller suspended in waitForSlot.  Time goes on for ever: once now has *)
(* reached MaxTime the clock keeps its reading and the recorded timestamps *)
(* are moved back instead, a timestamp that is a whole window old staying  *)
(* that old.  While the watched caller is suspended no other caller is     *)
(* admitted; waits of the watched caller is the sleeps of its call.        *)

\* the caller that is watched
Watched == 1

\* the timestamps after a second at the end of the clock
MovedBack(reqs) ==
    [i \in DOMAIN reqs |-> Max(reqs[i] - 1, now - WindowTicks)]

\* a second passes
TickOn ==
    /\ IF now < MaxTime THEN
           /\ now' = now + 1
           /\ admissions' = InWindow(admissions, now + 1)
           /\ UNCHANGED requests
       ELSE
           /\ now' = now
           /\ admissions' = InWindow(MovedBack(admissions), now)
           /\ requests' = MovedBack(requests)
    /\ timer' = [c \in Callers |-> IF timer[c] > 0 THEN timer[c] - 1 ELSE 0]
    /\ UNCHANGED <<lastCheck, gpc, retries, attempt,
                   httpCalls, settled, lastOutcome, only429, waits>>
    /\ UNCHANGED <<extractVars, postVars, libVars>>

\* one checkLimit by caller c inside waitForSlot; first tells the check of
\* the call from the checks after a sleep
WatchedCheck(c, first) ==
    /\ SlotCheck(c)
    /\ (c # Watched /\ gpc[Watched] = "polling") =>
          ~CheckLimit(requests, now).admitted
    /\ waits' = IF c # Watched THEN waits
                ELSE [waits EXCEPT ![c] =
                        (IF first THEN <<>> ELSE @)
                        \o (IF CheckLimit(requests, now).admitted THEN <<>>
                            ELSE <<1>>)]
    /\ UNCHANGED <<now, retries, attempt, httpCalls, settled, lastOutcome, only429>>
    /\ UNCHANGED <<extractVars, postVars, libVars>>

\* waitForSlot is called: its first checkLimit runs at once
WatchedWaitForSlot(c) == gpc[c] = "idle" /\ WatchedCheck(c, TRUE)

\* the 1000 ms timer of waitForSlot fired
WatchedPollSlot(c) ==
    gpc[c] = "polling" /\ timer[c] = 0 /\ WatchedCheck(c, FALSE)

NextLimiterLive ==
    \/ \E c \in Callers : WatchedWaitForSlot(c)
    \/ \E c \in Callers : WatchedPollSlot(c)
    \/ TickOn

\* time advances, and the timer callback of the watched caller runs when it
\* is due
SpecLimiterLive ==
    /\ InitGen
    /\ [][NextLimiterLive]_vars
    /\ WF_vars(TickOn)
    /\ WF_vars(WatchedPollSlot(Watched))

\* a step that is a poll of the watched caller
WatchedPolls ==
    /\ gpc[Watched] = "polling"
    /\ timer[Watched] = 0
    /\ gpc'[Watched] = "idle" \/ timer'[Watched] = 1

\* C29: a caller suspended in waitForSlot is eventually admitted, provided
\* time advances and no other caller is admitted in the meantime: as soon as
\* fewer than limit recorded timestamps are younger than the window, the
\* caller's next poll discards the expired timestamps, records its own
\* timestamp and returns.
C29_EventuallyAdmitted ==
    /\ [][(WatchedPolls /\ Len(InWindow(requests, now)) < Limit) =>
             /\ gpc'[Watched] = "idle"
             /\ requests' = Append(InWindow(requests, now), now)]_vars
    /\ (gpc[Watched] = "polling") ~> (gpc[Watched] = "idle")

\* C29 witness: the watched caller slept a whole window, second by second,
\* and its last poll has just admitted it and recorded its timestamp alone
C29_Witness ==
    /\ gpc[Watched] = "idle"
    /\ Len(waits[Watched]) = WindowTicks
    /\ lastCheck.admitted
    /\ requests = <<now>>

----------------------------------------------------------------------------
(* the extraction cache of POST /api/extract-books (SpecPost)              *)

\* the step settles the task at position p of the request as failed
FailsAt(p) ==
    /\ p \in DOMAIN fate
    /\ fate' # <<>>
    /\ fate[p].kind # "failed"
    /\ fate'[p].kind = "failed"

\* the step is the end of the task of episode id, its extraction having
\* returned a result
ExtractedFor(id) ==
    \E k \in DOMAIN tasks :
        /\ request.episodes[batch[k]] = id
        /\ tasks[k].pc = "extract"
        /\ fate'[batch[k]].kind = "ok"

\* C30: the extraction cache never receives an entry for an episode whose
\* extraction task raised an error: an entry is written under an episode's
\* id only after the extraction returned a result, and the step in which a
\* task fails leaves the cache as it was, so that an episode without an
\* entry stays without one and its next lookup leads to the extraction
\* call.
C30_CacheWrittenAfterResult ==
    [][/\ \A id \in EpisodeIds : cache'[id] # cache[id] => ExtractedFor(id)
       /\ (\E p \in DOMAIN fate : FailsAt(p)) => cache' = cache
       /\ \A k \in DOMAIN tasks :
             (/\ phase = "batch"
              /\ tasks[k].pc = "lookup"
              /\ ~cache[request.episodes[batch[k]]].present
              /\ tasks' # <<>>
              /\ tasks'[k] # tasks[k]) => tasks'[k].pc = "extract"]_vars

\* C30 witness: of two episodes of a request one failed and has no entry,
\* the other one was extracted and has one
C30_Witness ==
    \E p, q \in DOMAIN fate :
        /\ fate[p].kind = "failed"
        /\ ~cache[request.episodes[p]].present
        /\ fate[q].kind = "ok"
        /\ cache[request.episodes[q]].present

====
